---------------------------- MODULE Spec2Model ----------------------------
(***************************************************************************)
(* A model of the jsonfs JSON codec: the state-machine decoder             *)
(* (UnmarshalJSON, dictSM, arraySM and the scalar decoders), the encoder   *)
(* (MarshalJSON, Directory.EncodeJSON) and the Directory/File tree.        *)
(*                                                                         *)
(* Text is a sequence of one-character strings.  A bufio.Reader is the     *)
(* pair (src, pos): the bytes of the source and the index of the next      *)
(* byte to read.  An error is a string; NoErr is Go's nil error.           *)
(***************************************************************************)
EXTENDS Integers, Sequences, FiniteSets, TLC

VARIABLES
    input,    \* what the caller handed to the first UnmarshalJSON call
    src,      \* bytes of the reader now being decoded
    pos,      \* index in src of the next byte the reader returns
    stack,    \* the running state machines, outermost first
    now,      \* the clock behind time.Now()
    pc,       \* position of the calling program
    results,  \* what each UnmarshalJSON call returned, in call order
    file,     \* what MarshalJSON wrote and returned
    frag,     \* scalar codec: the byte fragment under test
    scalarOut,\* scalar codec: what the function applied to frag returned
    ch,       \* UnmarshalStream: the items buffered in the channel it returned
    closed,   \* UnmarshalStream: the channel has been closed
    ctxDone,  \* UnmarshalStream: the context passed in has been cancelled
    consumer, \* UnmarshalStream: what the receiver of the channel is doing
    received, \* UnmarshalStream: the items the receiver has taken, in order
    root,     \* tree: the Directory the calling program holds
    op,       \* tree: the last call made on the tree and what it returned
    cp,       \* tree: the Directory CP returned to the calling program
    mu,       \* goroutines: the sync.RWMutex of the Directory they share
    gs,       \* goroutines: the call each is making and its position in it
    pool,     \* goroutines: the buffers available in readerPool and writerPool
    sm        \* decoder: the dictSM and arraySM instances out of their pools

\* the state of a stream and of its consumer
streamVars == <<ch, closed, ctxDone, consumer, received>>

\* the state of a program working on a tree
treeVars == <<root, op, cp>>

\* the state of goroutines that call one Directory
goVars == <<mu, gs, pool, sm>>

\* the same without the state machine pools
lockVars == <<mu, gs, pool>>

vars == <<input, src, pos, stack, now, pc, results, file, frag, scalarOut,
          streamVars, treeVars, goVars>>

-----------------------------------------------------------------------------
(* Bytes and the character classes the decoder uses. *)

doubleQuote == "\""
openBracket == "["
closeBracket == "]"
openBrace == "{"
closeBrace == "}"
colon == ":"
comma == ","
backslash == "\\"

NoErr == "nil"

\* unicode.IsSpace, on the bytes the model uses
IsSpace(r) == r \in {" ", "\n", "\t", "\r"}

\* unicode.IsNumber, on the bytes the model uses
IsNumber(r) == r \in {"0", "1", "2", "3", "4", "5", "6", "7", "8", "9"}

DigitChar(d) ==
    CASE d = 0 -> "0" [] d = 1 -> "1" [] d = 2 -> "2" [] d = 3 -> "3"
      [] d = 4 -> "4" [] d = 5 -> "5" [] d = 6 -> "6" [] d = 7 -> "7"
      [] d = 8 -> "8" [] d = 9 -> "9"

RECURSIVE Itoa(_)
\* strconv.Itoa for the non-negative indices the decoder formats
Itoa(n) ==
    IF n < 10 THEN <<DigitChar(n)>>
    ELSE Itoa(n \div 10) \o <<DigitChar(n % 10)>>

Min(a, b) == IF a < b THEN a ELSE b

-----------------------------------------------------------------------------
(* The tree: File, Object, Directory. *)

FTNull == 0
FTBool == 1
FTInt == 2
FTFloat == 3
FTString == 4

OTUnknown == 0
OTFile == 1
OTDir == 2

ZeroTime == 0

EmptyMap == [k \in {} |-> 0]

File(name, modTime, t, value) ==
    [name |-> name, modTime |-> modTime, t |-> t, value |-> value]

ZeroFile == File(<<>>, ZeroTime, FTNull, <<>>)

Directory(name, modTime, objs, isArray) ==
    [name |-> name, modTime |-> modTime, objs |-> objs, isArray |-> isArray]

\* Directory{}
ZeroDir == Directory(<<>>, ZeroTime, EmptyMap, FALSE)

Object(Type, f, d) == [Type |-> Type, File |-> f, Dir |-> d]

FileObject(f) == Object(OTFile, f, ZeroDir)

DirObject(d) == Object(OTDir, ZeroFile, d)

\* Directory.Len
DirectoryLen(d) == Cardinality(DOMAIN d.objs)

\* newDir drops the modTime it is given and stores the zero time
newDir(name, modTime) == Directory(name, ZeroTime, EmptyMap, FALSE)

\* m[k] = v on a Go map
MapSet(m, k, v) == [x \in (DOMAIN m) \cup {k} |-> IF x = k THEN v ELSE m[x]]

\* d.dirs[name] = sub and d.files[name] = f of the decoder
SetDir(d, name, sub) == [d EXCEPT !.objs = MapSet(d.objs, name, DirObject(sub))]

SetFile(d, name, f) == [d EXCEPT !.objs = MapSet(d.objs, name, FileObject(f))]

\* a duplicateField that looks among the files only
duplicateField_FilesOnly(dir, name) ==
    IF name \in DOMAIN dir.objs /\ dir.objs[name].Type = OTFile
    THEN "had duplicate field named" ELSE NoErr

duplicateField(dir, name) ==
    IF name \in DOMAIN dir.objs THEN "had duplicate field named" ELSE NoErr

-----------------------------------------------------------------------------
(* bufio.Reader over a byte sequence s, at position p. *)

AtEOF(s, p) == p > Len(s)

RECURSIVE skipSpace(_, _)
\* the position skipSpace leaves the reader at
skipSpace(s, p) ==
    IF AtEOF(s, p) THEN p
    ELSE IF IsSpace(s[p]) THEN skipSpace(s, p + 1)
    ELSE p

\* next values of valueCheck
unknownNext == 0
msgNext == 1
arrayNext == 2
stringNext == 3
trueNext == 4
falseNext == 5
numNext == 6
nullNext == 7

\* valueCheck(b): skips space, peeks one byte; the reader is left after the space
valueCheck(s, p) ==
    LET q == skipSpace(s, p) IN
    IF AtEOF(s, q) THEN [next |-> unknownNext, err |-> "EOF", pos |-> q]
    ELSE LET r == s[q] IN
         [pos |-> q,
          next |-> CASE r = openBrace -> msgNext
                     [] r = openBracket -> arrayNext
                     [] r = doubleQuote -> stringNext
                     [] IsNumber(r) -> numNext
                     [] r = "t" -> trueNext
                     [] r = "f" -> falseNext
                     [] r = "n" -> nullNext
                     [] OTHER -> unknownNext,
          err |-> IF r \in {openBrace, openBracket, doubleQuote, "t", "f", "n"}
                     \/ IsNumber(r)
                  THEN NoErr ELSE "unexpected value type after key"]

RECURSIVE TrailingBackslashes(_, _)
\* the loop of isQuote: flips itIs for every backslash from index i down
TrailingBackslashes(b, i) ==
    IF i >= 1 /\ b[i] = backslash THEN ~TrailingBackslashes(b, i - 1)
    ELSE TRUE

\* an isQuote that looks at the one byte before the quote
isQuote_LastByteOnly(b) ==
    CASE Len(b) = 0 -> FALSE
      [] Len(b) = 1 -> TRUE
      [] OTHER -> b[Len(b) - 1] # backslash

isQuote(b) ==
    CASE Len(b) = 0 -> FALSE
      [] Len(b) = 1 -> TRUE
      [] Len(b) = 2 -> IF b[1] = backslash THEN FALSE ELSE TRUE
      [] OTHER -> TrailingBackslashes(b, Len(b) - 1)

RECURSIVE IndexFrom(_, _, _)
\* index of the first c in s at or after p, or 0
IndexFrom(s, p, c) ==
    IF AtEOF(s, p) THEN 0
    ELSE IF s[p] = c THEN p
    ELSE IndexFrom(s, p + 1, c)

RECURSIVE getString(_, _, _)
\* a getString that takes the first quote for the end of the string
getString_AnyQuote(s, p, deleteFirst) ==
    IF deleteFirst /\ AtEOF(s, p) THEN [value |-> <<>>, err |-> "EOF", pos |-> p]
    ELSE
    LET p1 == IF deleteFirst THEN p + 1 ELSE p
        q == IndexFrom(s, p1, doubleQuote)
    IN  IF q = 0
        THEN [value |-> <<>>, err |-> "string did not end with a double quote",
              pos |-> Len(s) + 1]
        ELSE [value |-> SubSeq(s, p1, q - 1), err |-> NoErr, pos |-> q + 1]

\* getString(b, deleteFirst): [value, err, pos]
getString(s, p, deleteFirst) ==
    IF deleteFirst /\ AtEOF(s, p) THEN [value |-> <<>>, err |-> "EOF", pos |-> p]
    ELSE
    LET p1 == IF deleteFirst THEN p + 1 ELSE p
        q == IndexFrom(s, p1, doubleQuote)   \* b.ReadBytes('"')
    IN  IF q = 0
        THEN [value |-> <<>>, err |-> "string did not end with a double quote",
              pos |-> Len(s) + 1]
        ELSE LET chunk == SubSeq(s, p1, q) IN
             IF ~isQuote(chunk)
             THEN LET rest == getString(s, q + 1, FALSE) IN
                  IF rest.err # NoErr
                  THEN [value |-> <<>>, err |-> rest.err, pos |-> rest.pos]
                  ELSE [value |-> chunk \o rest.value, err |-> NoErr,
                        pos |-> rest.pos]
             ELSE [value |-> SubSeq(chunk, 1, Len(chunk) - 1), err |-> NoErr,
                   pos |-> q + 1]

decodeString(s, p, name, modTime) ==
    LET g == getString(s, p, TRUE) IN
    IF g.err # NoErr THEN [file |-> ZeroFile, err |-> g.err, pos |-> g.pos]
    ELSE [file |-> File(name, modTime, FTString, g.value), err |-> NoErr,
          pos |-> g.pos]

\* io.ReadFull(b, buff) for a buffer of n bytes
ReadFull(s, p, n) ==
    IF p + n - 1 > Len(s)
    THEN [buff |-> <<>>, err |-> "unexpected EOF", pos |-> Len(s) + 1]
    ELSE [buff |-> SubSeq(s, p, p + n - 1), err |-> NoErr, pos |-> p + n]

decodeBool(s, p, name, hint, modTime) ==
    LET r == ReadFull(s, p, IF hint = trueNext THEN 4 ELSE 5) IN
    IF r.err # NoErr
    THEN [file |-> ZeroFile, err |-> "decoding bool, but unexpected error",
          pos |-> r.pos]
    ELSE IF r.buff = <<"f", "a", "l", "s", "e">> \/ r.buff = <<"t", "r", "u", "e">>
    THEN [file |-> File(name, modTime, FTBool, r.buff), err |-> NoErr, pos |-> r.pos]
    ELSE [file |-> ZeroFile, err |-> "expected bool value true or false",
          pos |-> r.pos]

decodeNull(s, p, name, modTime) ==
    LET r == ReadFull(s, p, 4) IN
    IF r.err # NoErr
    THEN [file |-> ZeroFile, err |-> "decoding null, but unexpected error",
          pos |-> r.pos]
    ELSE IF r.buff # <<"n", "u", "l", "l">>
    THEN [file |-> ZeroFile, err |-> "expected null", pos |-> r.pos]
    ELSE [file |-> File(name, modTime, FTNull, r.buff), err |-> NoErr, pos |-> r.pos]

RECURSIVE NumberScan(_, _, _, _)
\* the loop of decodeNumber: [buff, float, err, pos]
NumberScan(s, p, buff, float) ==
    IF AtEOF(s, p) THEN [buff |-> buff, float |-> float, err |-> "EOF", pos |-> p]
    ELSE LET r == s[p] IN
         IF ~IsNumber(r)
         THEN IF r # "."
              THEN [buff |-> buff, float |-> float, err |-> NoErr, pos |-> p]
              ELSE NumberScan(s, p + 1, Append(buff, r), TRUE)
         ELSE NumberScan(s, p + 1, Append(buff, r), float)

decodeNumber(s, p, name, modTime) ==
    LET n == NumberScan(s, p, <<>>, FALSE) IN
    IF n.err # NoErr THEN [file |-> ZeroFile, err |-> n.err, pos |-> n.pos]
    ELSE IF Len(n.buff) = 0
    THEN [file |-> ZeroFile, err |-> "expected key to have number, but did not",
          pos |-> n.pos]
    ELSE [file |-> File(name, modTime, IF n.float THEN FTFloat ELSE FTInt, n.buff),
          err |-> NoErr, pos |-> n.pos]

-----------------------------------------------------------------------------
(* The state machines.  A frame is one dictSM or arraySM instance; the     *)
(* frame on top of the stack is the machine runSM is driving.  The state    *)
(* "nil" is the nil stateFn that ends runSM.                                *)

Frame(kind, st, dir, modTime, valueName, item, err) ==
    [kind |-> kind, st |-> st, dir |-> dir, modTime |-> modTime,
     valueName |-> valueName, item |-> item, err |-> err]

\* dictPool.Get() followed by dictSM.reset(b, dirName), about to run start
dictReset(dirName) ==
    Frame("dict", "start", newDir(dirName, ZeroTime), ZeroTime, <<>>, 0, NoErr)

\* arrayPool.Get() followed by arraySM.reset(b, name, modTime), about to run start
arrayReset(name, modTime) ==
    Frame("array", "start", [newDir(name, modTime) EXCEPT !.isArray = TRUE],
          modTime, <<>>, 0, NoErr)

\* dictPool.Get() / arrayPool.Get(): one more instance of the kind is out
PoolTake(out, kind) == [out EXCEPT ![kind] = @ + 1]

\* nm.Close() / na.Close(): the instance goes back to the pool of its kind
PoolClose(out, kind) == [out EXCEPT ![kind] = @ - 1]

Depth == Len(stack)

Top == stack[Depth]

Running(kind, st) ==
    /\ pc = "unmarshal"
    /\ Depth >= 1
    /\ Top.kind = kind
    /\ Top.st = st

\* the running machine becomes f and the reader moves to p
Step(f, p) ==
    /\ stack' = [stack EXCEPT ![Depth] = f]
    /\ pos' = p
    /\ UNCHANGED <<input, goVars, src, pc, results, file, frag, scalarOut, streamVars, treeVars>>

\* return nil with m.err = e
Fail(e) == [Top EXCEPT !.err = e, !.st = "nil"]

Goto(st) == [Top EXCEPT !.st = st]

dictStart ==
    /\ Running("dict", "start")
    /\ now' = now + 1
    /\ Step([Top EXCEPT !.modTime = now, !.dir.modTime = now, !.st = "openBrace"],
            pos)

\* an openBrace that leaves the closing brace of {} unread
dictOpenBrace_KeepsBrace ==
    /\ Running("dict", "openBrace")
    /\ LET q == skipSpace(src, pos) IN
       IF AtEOF(src, q) THEN Step(Goto("nil"), q)
       ELSE IF src[q] # openBrace
       THEN Step(Fail("object must start with {"), q + 1)
       ELSE IF AtEOF(src, q + 1) THEN Step(Fail("EOF"), q + 1)
       ELSE IF src[q + 1] = closeBrace THEN Step(Goto("nil"), q + 1)
       ELSE Step(Goto("parseKey"), q + 1)
    /\ UNCHANGED now

dictOpenBrace ==
    /\ Running("dict", "openBrace")
    /\ LET q == skipSpace(src, pos) IN
       IF AtEOF(src, q) THEN Step(Goto("nil"), q)       \* err == io.EOF
       ELSE IF src[q] # openBrace
       THEN Step(Fail("object must start with {"), q + 1)
       ELSE IF AtEOF(src, q + 1) THEN Step(Fail("EOF"), q + 1)   \* Peek(1)
       ELSE IF src[q + 1] = closeBrace THEN Step(Goto("nil"), q + 2)
       ELSE Step(Goto("parseKey"), q + 1)
    /\ UNCHANGED now

dictParseKey ==
    /\ Running("dict", "parseKey")
    /\ LET q == skipSpace(src, pos) IN
       IF AtEOF(src, q) THEN Step(Fail("EOF"), q)
       ELSE IF src[q] # doubleQuote
       THEN Step(Fail("object key expected but did not find open double quote"),
                 q + 1)
       ELSE LET g == getString(src, q, TRUE) IN
            IF g.err # NoErr THEN Step(Fail(g.err), g.pos)
            ELSE Step([Top EXCEPT !.valueName = g.value, !.st = "colon"], g.pos)
    /\ UNCHANGED now

dictColon ==
    /\ Running("dict", "colon")
    /\ LET q == skipSpace(src, pos) IN
       IF AtEOF(src, q) THEN Step(Fail("EOF"), q)
       ELSE IF src[q] # colon
       THEN Step(Fail("object key not followed by colon"), q + 1)
       ELSE Step(Goto("valueCheck"), q + 1)
    /\ UNCHANGED now

\* the scalar cases of the two valueCheck switches: [file, err, pos]
decodeScalar(next, s, p, name, modTime) ==
    CASE next = stringNext -> decodeString(s, p, name, modTime)
      [] next = trueNext -> decodeBool(s, p, name, trueNext, modTime)
      [] next = falseNext -> decodeBool(s, p, name, falseNext, modTime)
      [] next = numNext -> decodeNumber(s, p, name, modTime)
      [] next = nullNext -> decodeNull(s, p, name, modTime)

\* a nested machine is taken from its pool, reset, and runSM starts driving it
Call(parent, child, p) ==
    /\ stack' = [stack EXCEPT ![Depth] = parent] \o <<child>>
    /\ pos' = p
    /\ sm' = PoolTake(sm, child.kind)
    /\ UNCHANGED <<input, lockVars, src, pc, results, file, frag, scalarOut, streamVars, treeVars>>

\* dictSM.valueCheck up to the nested runSM call, or to its end for a scalar
dictValueCheck ==
    /\ Running("dict", "valueCheck")
    /\ LET vc == valueCheck(src, pos)
           dup == duplicateField(Top.dir, Top.valueName)
       IN  IF vc.err # NoErr THEN Step(Fail(vc.err), vc.pos)
           ELSE IF dup # NoErr THEN Step(Fail(dup), vc.pos)
           ELSE IF vc.next = msgNext
           THEN Call(Goto("runSM"), dictReset(Top.valueName), vc.pos)
           ELSE IF vc.next = arrayNext
           THEN Call(Goto("runSM"), arrayReset(Top.valueName, Top.modTime), vc.pos)
           ELSE LET o == decodeScalar(vc.next, src, vc.pos, Top.valueName,
                                      Top.modTime)
                IN  IF o.err # NoErr THEN Step(Fail(o.err), o.pos)
                    ELSE Step([Top EXCEPT
                                 !.dir = SetFile(Top.dir, Top.valueName, o.file),
                                 !.st = "commaClose"], o.pos)
    /\ UNCHANGED now

\* the nested runSM has returned with an error: `m.err = nm.V.err; return nil`,
\* which leaves the nested machine out of its pool
Return(parent) ==
    /\ stack' = [SubSeq(stack, 1, Depth - 1) EXCEPT ![Depth - 1] = parent]
    /\ UNCHANGED <<input, goVars, src, pos, now, pc, results, file, frag, scalarOut, streamVars, treeVars>>

\* the nested runSM has returned without one: the rest of the msgNext /
\* arrayNext case, which ends with nm.Close() or na.Close()
ReturnClose(parent) ==
    /\ stack' = [SubSeq(stack, 1, Depth - 1) EXCEPT ![Depth - 1] = parent]
    /\ sm' = PoolClose(sm, Top.kind)
    /\ UNCHANGED <<input, lockVars, src, pos, now, pc, results, file, frag, scalarOut, streamVars, treeVars>>

Caller == stack[Depth - 1]

Returned(kind) ==
    /\ pc = "unmarshal"
    /\ Depth >= 2
    /\ Top.st = "nil"
    /\ Caller.kind = kind
    /\ Caller.st = "runSM"

\* a valueCheck that does not look at the error of the nested machine
dictValueCheckReturn_DropsError ==
    /\ Returned("dict")
    /\ ReturnClose([Caller EXCEPT !.dir = SetDir(Caller.dir, Top.dir.name, Top.dir),
                                  !.st = "commaClose"])

dictValueCheckReturn ==
    /\ Returned("dict")
    /\ IF Top.err # NoErr
       THEN Return([Caller EXCEPT !.err = Top.err, !.st = "nil"])
       ELSE ReturnClose([Caller EXCEPT
                           !.dir = SetDir(Caller.dir, Top.dir.name, Top.dir),
                           !.st = "commaClose"])

\* a commaClose that takes the end of input for the end of the object
dictCommaClose_EOFEnds ==
    /\ Running("dict", "commaClose")
    /\ LET q == skipSpace(src, pos) IN
       IF AtEOF(src, q) THEN Step(Goto("nil"), q)
       ELSE IF src[q] = closeBrace THEN Step(Goto("braceClose"), q)
       ELSE IF src[q] = comma THEN Step(Goto("comma"), q)
       ELSE Step(Fail("expecting a comma after field value or closing brace"), q)
    /\ UNCHANGED now

dictCommaClose ==
    /\ Running("dict", "commaClose")
    /\ LET q == skipSpace(src, pos) IN
       IF AtEOF(src, q)
       THEN Step(Fail("expecting comma after object or closing brace, found eol"), q)
       ELSE IF src[q] = closeBrace THEN Step(Goto("braceClose"), q)
       ELSE IF src[q] = comma THEN Step(Goto("comma"), q)
       ELSE Step(Fail("expecting a comma after field value or closing brace"), q)
    /\ UNCHANGED now

dictBraceClose ==
    /\ Running("dict", "braceClose")
    /\ IF AtEOF(src, pos) THEN Step(Fail("EOF"), pos)
       ELSE IF src[pos] # closeBrace
       THEN Step(Fail("expecting close brace"), pos + 1)
       ELSE Step(Goto("nil"), pos + 1)
    /\ UNCHANGED now

\* a comma state that leaves the comma unread and hands back to commaClose
dictComma_LeavesComma ==
    /\ Running("dict", "comma")
    /\ IF AtEOF(src, pos) THEN Step(Fail("EOF"), pos)
       ELSE IF src[pos] # comma THEN Step(Fail("expecting comma"), pos + 1)
       ELSE Step(Goto("commaClose"), pos)
    /\ UNCHANGED now

dictComma ==
    /\ Running("dict", "comma")
    /\ IF AtEOF(src, pos) THEN Step(Fail("EOF"), pos)
       ELSE IF src[pos] # comma THEN Step(Fail("expecting comma"), pos + 1)
       ELSE Step(Goto("parseKey"), pos + 1)
    /\ UNCHANGED now

arrayStart ==
    /\ Running("array", "start")
    /\ Step(Goto("openBracket"), pos)
    /\ UNCHANGED now

arrayOpenBracket ==
    /\ Running("array", "openBracket")
    /\ LET q == skipSpace(src, pos) IN
       IF AtEOF(src, q) THEN Step(Fail("EOF"), q)
       ELSE IF src[q] # openBracket
       THEN Step(Fail("expected array open bracket"), q + 1)
       ELSE IF AtEOF(src, q + 1) THEN Step(Fail("EOF"), q + 1)   \* Peek(1)
       ELSE IF src[q + 1] = closeBracket THEN Step(Goto("nil"), q + 2)
       ELSE Step(Goto("valueCheck"), q + 1)
    /\ UNCHANGED now

\* a valueCheck without the deferred m.item++
ItemDone_NoIncrement(f) == f

\* the deferred m.item++
ItemDone(f) == [f EXCEPT !.item = f.item + 1]

\* arraySM.valueCheck up to the nested runSM call, or to its end for a scalar
arrayValueCheck ==
    /\ Running("array", "valueCheck")
    /\ LET vc == valueCheck(src, pos)
           valueName == Itoa(Top.item)
       IN  IF vc.err # NoErr THEN Step(ItemDone(Fail(vc.err)), vc.pos)
           ELSE IF vc.next = msgNext
           THEN Call(Goto("runSM"), dictReset(Itoa(Top.item)), vc.pos)
           ELSE IF vc.next = arrayNext
           THEN Call(Goto("runSM"), arrayReset(Itoa(Top.item), Top.modTime), vc.pos)
           ELSE LET o == decodeScalar(vc.next, src, vc.pos, valueName, Top.modTime)
                IN  IF o.err # NoErr THEN Step(ItemDone(Fail(o.err)), o.pos)
                    ELSE Step(ItemDone([Top EXCEPT
                                 !.dir = SetFile(Top.dir, valueName, o.file),
                                 !.st = "commaClose"]), o.pos)
    /\ UNCHANGED now

arrayValueCheckReturn ==
    /\ Returned("array")
    /\ IF Top.err # NoErr
       THEN Return(ItemDone([Caller EXCEPT !.err = Top.err, !.st = "nil"]))
       ELSE ReturnClose(ItemDone([Caller EXCEPT
                               !.dir = SetDir(Caller.dir, Top.dir.name, Top.dir),
                               !.st = "commaClose"]))

arrayCommaClose ==
    /\ Running("array", "commaClose")
    /\ LET q == skipSpace(src, pos) IN
       IF AtEOF(src, q)
       THEN Step(Fail("expecting comma after array value or closing bracket, found eol"),
                 q)
       ELSE IF src[q] = closeBracket THEN Step(Goto("close"), q)
       ELSE IF src[q] = comma THEN Step(Goto("comma"), q)
       ELSE Step(Fail("expecting a comma after field value or closing bracket"), q)
    /\ UNCHANGED now

arrayClose ==
    /\ Running("array", "close")
    /\ IF AtEOF(src, pos) THEN Step(Fail("EOF"), pos)
       ELSE IF src[pos] # closeBracket
       THEN Step(Fail("expecting close bracket"), pos + 1)
       ELSE Step(Goto("nil"), pos + 1)
    /\ UNCHANGED now

arrayComma ==
    /\ Running("array", "comma")
    /\ IF AtEOF(src, pos) THEN Step(Fail("EOF"), pos)
       ELSE IF src[pos] # comma THEN Step(Fail("expecting comma"), pos + 1)
       ELSE Step(Goto("valueCheck"), pos + 1)
    /\ UNCHANGED now

\* one turn of the loop of runSM, for whichever machine it is driving
runSM ==
    \/ dictStart \/ dictOpenBrace \/ dictParseKey \/ dictColon
    \/ dictValueCheck \/ dictValueCheckReturn \/ dictCommaClose
    \/ dictBraceClose \/ dictComma
    \/ arrayStart \/ arrayOpenBracket \/ arrayValueCheck
    \/ arrayValueCheckReturn \/ arrayCommaClose \/ arrayClose \/ arrayComma

\* UnmarshalJSON(r): the top-level machine is reset on the reader
UnmarshalJSONCall(text) ==
    /\ src' = text
    /\ pos' = 1
    /\ stack' = <<dictReset(<<>>)>>
    /\ sm' = PoolTake(sm, "dict")
    /\ pc' = "unmarshal"

\* UnmarshalJSON after its runSM has returned
UnmarshalJSONReturn ==
    /\ pc = "unmarshal"
    /\ Depth = 1
    /\ Top.st = "nil"
    /\ results' = Append(results,
                         IF Top.err # NoErr THEN [dir |-> ZeroDir, err |-> Top.err]
                         ELSE [dir |-> Top.dir, err |-> NoErr])
    /\ stack' = <<>>
    /\ sm' = PoolClose(sm, "dict")
    /\ pc' = "idle"
    /\ UNCHANGED <<input, lockVars, src, pos, now, file, frag, scalarOut, streamVars, treeVars>>

-----------------------------------------------------------------------------
(* The encoder.  A Go map is ranged over in an unspecified order, so the    *)
(* encoding of a Directory is the set of texts that some order produces.    *)
(* An encoding is [out, err]: the bytes written and the error returned.     *)

Enc(out, err) == [out |-> out, err |-> err]

\* a File.EncodeJSON that writes a string without its quotes
FileEncodeJSON_NoQuotes(f) == f.value

\* File.EncodeJSON
FileEncodeJSON(f) ==
    IF f.t = FTString THEN <<doubleQuote>> \o f.value \o <<doubleQuote>>
    ELSE f.value

\* every order in which a range over map m can visit its keys
RangeOrders(m) ==
    LET n == Cardinality(DOMAIN m) IN
    {o \in [1..n -> DOMAIN m] : \A i, j \in 1..n : i # j => o[i] # o[j]}

RECURSIVE encodeJSONArray(_)
RECURSIVE encodeJSONDict(_)
RECURSIVE ArrayItems(_, _)
RECURSIVE DictItems(_, _, _)

\* the switch on o.Type of both encoders: the encodings of one child's value
EncodeObject(o) ==
    CASE o.Type = OTFile -> {Enc(FileEncodeJSON(o.File), NoErr)}
      [] o.Type = OTDir -> IF o.Dir.isArray THEN encodeJSONArray(o.Dir)
                           ELSE encodeJSONDict(o.Dir)
      [] OTHER -> {Enc(<<>>, NoErr)}

\* what follows one encoded child c: a comma unless it is the last, then the rest
Continue(c, more, rest) ==
    IF c.err # NoErr THEN {c}
    ELSE {Enc(c.out \o (IF more THEN <<comma>> ELSE <<>>) \o r.out, r.err) : r \in rest}

\* the loop of encodeJSONArray from index i on
ArrayItems(d, i) ==
    LET n == Cardinality(DOMAIN d.objs) IN
    IF i >= n THEN {Enc(<<>>, NoErr)}
    ELSE IF Itoa(i) \notin DOMAIN d.objs
    THEN {Enc(<<>>, "Directory was not a valid array, missing array index")}
    ELSE UNION {Continue(c, i < n - 1, ArrayItems(d, i + 1)) :
                  c \in EncodeObject(d.objs[Itoa(i)])}

encodeJSONArray(d) ==
    {IF r.err # NoErr THEN Enc(<<openBracket>> \o r.out, r.err)
     ELSE Enc(<<openBracket>> \o r.out \o <<closeBracket>>, NoErr) :
       r \in ArrayItems(d, 0)}

\* the name encodeJSONDict writes for a child: the child's own name
ObjectName(o) ==
    CASE o.Type = OTFile -> o.File.name
      [] o.Type = OTDir -> o.Dir.name
      [] OTHER -> <<>>

\* the loop of encodeJSONDict from the i-th visited key on, for visiting order ord
DictItems(d, ord, i) ==
    LET l == Cardinality(DOMAIN d.objs) IN
    IF i > l THEN {Enc(<<>>, NoErr)}
    ELSE LET o == d.objs[ord[i]]
             key == <<doubleQuote>> \o ObjectName(o) \o <<doubleQuote, colon>>
         IN  UNION {Continue(Enc(key \o c.out, c.err), i < l, DictItems(d, ord, i + 1)) :
                      c \in EncodeObject(o)}

encodeJSONDict(d) ==
    UNION {{IF r.err # NoErr THEN Enc(<<openBrace>> \o r.out, r.err)
            ELSE Enc(<<openBrace>> \o r.out \o <<closeBrace>>, NoErr) :
              r \in DictItems(d, ord, 1)} : ord \in RangeOrders(d.objs)}

\* an EncodeJSON that writes an array-flagged Directory as a JSON array
EncodeJSON_ArrayAtTop(d) ==
    IF d.isArray THEN encodeJSONArray(d) ELSE encodeJSONDict(d)

\* Directory.EncodeJSON
EncodeJSON(d) ==
    IF d.isArray
    THEN {Enc(<<>>, "must encode from a Directory that is not an array")}
    ELSE encodeJSONDict(d)

\* MarshalJSON(w, d) into an empty bytes.Buffer: the buffered bytes reach w
\* only through the final Flush
MarshalJSON(d) ==
    {IF e.err # NoErr THEN Enc(<<>>, e.err) ELSE e : e \in EncodeJSON(d)}

-----------------------------------------------------------------------------
(* The inputs.  A document is a syntax tree; its text is the concatenation  *)
(* of its tokens, optionally with space put between two adjacent tokens or  *)
(* cut short.                                                               *)

MaxNodes == 4     \* values (scalars and containers) in a generated document
MaxElems == 2     \* elements in a generated array of scalars

Node(t, text, es) == [t |-> t, text |-> text, es |-> es]

Scalar(text) == Node("scalar", text, <<>>)

Entry(k, v) == [k |-> k, v |-> v]

\* an object from a sequence of values and a key for each
Obj(ks, vs) == Node("object", <<>>, [i \in 1..Len(vs) |-> Entry(ks[i], vs[i])])

Arr(vs) == Node("array", <<>>, [i \in 1..Len(vs) |-> Entry(<<>>, vs[i])])

Quoted(s) == <<doubleQuote>> \o s \o <<doubleQuote>>

Keys == {<<"a">>, <<"b">>}

\* keys with an escaped quote, an escaped backslash, and the empty key
OddKeys == {<<>>, <<backslash, doubleQuote>>, <<"a", backslash, backslash>>}

IntLits == {<<"1">>, <<"2", "0">>}

FloatLits == {<<"1", ".", "5">>}

StringLits == {Quoted(<<"x">>), Quoted(<<>>), Quoted(<<backslash, doubleQuote>>),
               Quoted(<<backslash, backslash>>)}

BoolLits == {<<"t", "r", "u", "e">>, <<"f", "a", "l", "s", "e">>}

NullLits == {<<"n", "u", "l", "l">>}

\* the scalar literals of the wire format
Literals == IntLits \cup FloatLits \cup StringLits \cup BoolLits \cup NullLits

\* texts that are no value
BadLits == {<<"x">>, <<"t", "r", "u", "x">>, <<"n", "u", "l", "x">>,
            <<"f", "a", "l", "s", "x">>, <<doubleQuote, "x">>, <<"-", "1">>}

RECURSIVE ValsOfSize(_)
RECURSIVE ForestsOfSize(_)

\* the sequences of values that hold n values in all, n >= 1
ForestsOfSize(n) ==
    UNION {{<<v>> \o rest : v \in ValsOfSize(i),
                            rest \in (IF i = n THEN {<<>>} ELSE ForestsOfSize(n - i))} :
             i \in 1..n}

KeyChoices(n) == [1..n -> Keys]

\* the values that hold exactly n values, themselves included; every leaf is 1
ValsOfSize(n) ==
    IF n = 1 THEN {Scalar(<<"1">>), Obj(<<>>, <<>>), Arr(<<>>)}
    ELSE UNION {{Obj(ks, vs) : ks \in KeyChoices(Len(vs))} \cup {Arr(vs)} :
                  vs \in ForestsOfSize(n - 1)}

\* documents of every shape: keys may repeat, containers may be empty
ShapeDocs(n) == UNION {ValsOfSize(i) : i \in 1..n}

\* the sequences over S of length at most n
SeqsUpTo(S, n) == UNION {[1..k -> S] : k \in 0..n}

\* documents of every scalar kind: as array elements and under every key
ScalarDocs ==
    {Obj(<<<<"a">>>>, <<Arr([i \in 1..Len(ls) |-> Scalar(ls[i])])>>) :
        ls \in SeqsUpTo(Literals, MaxElems)}
    \cup {Obj(<<k>>, <<Scalar(l)>>) : k \in Keys \cup OddKeys, l \in Literals}

\* documents that go wrong inside a nested container, after a first entry
BadDocs ==
    {Obj(<<<<"a">>, <<"b">>>>, <<Scalar(<<"1">>), inner>>) :
        inner \in UNION {{Arr(<<Scalar(<<"1">>), Scalar(b)>>),
                          Obj(<<<<"a">>, <<"b">>>>, <<Scalar(<<"1">>), Scalar(b)>>),
                          Arr(<<Arr(<<Scalar(b)>>)>>),
                          Arr(<<Obj(<<<<"a">>>>, <<Scalar(b)>>)>>)} : b \in BadLits}}

RECURSIVE Tokens(_)
RECURSIVE EntryTokens(_, _, _)

\* the tokens of entries i.. of a container
EntryTokens(v, i, isObj) ==
    IF i > Len(v.es) THEN <<>>
    ELSE (IF i > 1 THEN <<(<<comma>>)>> ELSE <<>>)
         \o (IF isObj THEN <<Quoted(v.es[i].k), <<colon>>>> ELSE <<>>)
         \o Tokens(v.es[i].v)
         \o EntryTokens(v, i + 1, isObj)

Tokens(v) ==
    CASE v.t = "scalar" -> <<v.text>>
      [] v.t = "object" ->
            <<(<<openBrace>>)>> \o EntryTokens(v, 1, TRUE) \o <<(<<closeBrace>>)>>
      [] v.t = "array" ->
            <<(<<openBracket>>)>> \o EntryTokens(v, 1, FALSE) \o <<(<<closeBracket>>)>>

RECURSIVE Flatten(_)
Flatten(toks) ==
    IF toks = <<>> THEN <<>> ELSE Head(toks) \o Flatten(Tail(toks))

\* the tokens with space sp put after the first g of them
Spaced(toks, g, sp) ==
    Flatten(SubSeq(toks, 1, g)) \o sp \o Flatten(SubSeq(toks, g + 1, Len(toks)))

Spaces == {<<" ">>, <<"\n", "\t">>}

Input(family, ast, text) == [family |-> family, ast |-> ast, text |-> text]

\* the documents of at most n values
PlainDocs(n) == ShapeDocs(n) \cup ScalarDocs \cup BadDocs

DocInputs(n) == {Input("doc", d, Flatten(Tokens(d))) : d \in PlainDocs(n)}

SmallDocs(n) ==
    {d \in ShapeDocs(n - 1) : d.t = "object"}
    \cup {Obj(<<k>>, <<Scalar(l)>>) : k \in Keys, l \in Literals}

SpacedInputs(n) ==
    UNION {{Input("spaced", d, Spaced(Tokens(d), g, sp)) :
              g \in 0..Len(Tokens(d)), sp \in Spaces} : d \in SmallDocs(n)}

CutInputs(n) ==
    UNION {{Input("cut", d, SubSeq(Flatten(Tokens(d)), 1, k)) :
              k \in 1..(Len(Flatten(Tokens(d))) - 1)} : d \in SmallDocs(n)}

BlankInputs ==
    {Input("blank", Scalar(<<>>), sp) : sp \in {<<>>} \cup Spaces}

\* the inputs built from documents of at most n values
Inputs(n) == DocInputs(n) \cup SpacedInputs(n) \cup CutInputs(n) \cup BlankInputs

-----------------------------------------------------------------------------
(* The calling program: UnmarshalJSON of the input, then, as the marshal    *)
(* test does, MarshalJSON of the Directory it returned into a buffer and    *)
(* UnmarshalJSON of that buffer.                                            *)

NoFile == Enc(<<>>, "not written")

\* no stream has been opened
NoStream ==
    /\ ch = <<>>
    /\ closed = FALSE
    /\ ctxDone = FALSE
    /\ consumer = "none"
    /\ received = <<>>

\* a call of the tree API: the function, the path below root of the
\* Directory it was made on, its arguments, the error it returned, the tree
\* before it, and the number of calls made on the tree up to it
TreeCall(fn, path, name, args, index, err, before, n) ==
    [fn |-> fn, path |-> path, name |-> name, args |-> args, index |-> index,
     err |-> err, before |-> before, n |-> n]

\* no call has been made on a tree
NoOp == TreeCall("none", <<>>, <<>>, <<>>, 0, NoErr, ZeroDir, 0)

\* the program holds no tree
\* no Directory was handed to CP: whether one was, whether what CP returned
\* holds the map of its argument, and the Directory struct returned
NoCopy == [made |-> FALSE, shared |-> FALSE, dir |-> ZeroDir]

\* a sync.RWMutex: the number of read locks held and whether the write lock is
RWMutex(readers, writer) == [readers |-> readers, writer |-> writer]

\* readerPool and writerPool with nothing put into them
NoPools == [readers |-> {}, writers |-> {}]

NoTree ==
    /\ root = ZeroDir
    /\ op = NoOp
    /\ cp = NoCopy
    /\ mu = RWMutex(0, FALSE)
    /\ gs = <<>>
    /\ pool = NoPools
    /\ sm = [dict |-> Len(stack), array |-> 0]

Init ==
    /\ input \in Inputs(MaxNodes)
    /\ src = input.text
    /\ pos = 1
    /\ stack = <<dictReset(<<>>)>>
    /\ now = 1
    /\ pc = "unmarshal"
    /\ results = <<>>
    /\ file = NoFile
    /\ frag = <<>>
    /\ scalarOut = <<>>
    /\ NoStream
    /\ NoTree

Marshal ==
    /\ pc = "idle"
    /\ Len(results) = 1
    /\ results[1].err = NoErr
    /\ file = NoFile
    /\ file' \in MarshalJSON(results[1].dir)
    /\ UNCHANGED <<input, goVars, src, pos, stack, now, pc, results, frag, scalarOut, streamVars, treeVars>>

Unmarshal ==
    /\ pc = "idle"
    /\ Len(results) = 1
    /\ file # NoFile
    /\ file.err = NoErr
    /\ UnmarshalJSONCall(file.out)
    /\ UNCHANGED <<input, lockVars, now, results, file, frag, scalarOut, streamVars, treeVars>>

Next ==
    \/ runSM
    \/ UnmarshalJSONReturn
    \/ Marshal
    \/ Unmarshal

Spec == Init /\ [][Next]_vars

-----------------------------------------------------------------------------
(* The scalar codec on its own: isQuote, getString and decodeNumber         *)
(* applied to a byte fragment.                                              *)

MaxLen == 6       \* bytes in a fragment handed to a scalar function

FragBytes == {backslash, doubleQuote, "x", "1", "."}

Frags == SeqsUpTo(FragBytes, MaxLen)

ScalarOut(fn, ok, value, t, err, p) ==
    [fn |-> fn, ok |-> ok, value |-> value, t |-> t, err |-> err, pos |-> p]

NoOut == ScalarOut("none", FALSE, <<>>, FTNull, NoErr, 0)

NoInput == Input("none", Scalar(<<>>), <<>>)

\* payloads made of the keywords, whole and not
KeywordFrags ==
    {<<"t", "r", "u", "e">>, <<"f", "a", "l", "s", "e">>, <<"n", "u", "l", "l">>,
     <<"t", "r", "u", "e", "x">>, <<"n", "u", "l">>, <<"f", "a", "l", "s", "x">>}

InitScalar ==
    /\ frag \in Frags \cup KeywordFrags
    /\ scalarOut = NoOut
    /\ input = NoInput
    /\ src = <<>>
    /\ pos = 1
    /\ stack = <<>>
    /\ now = 1
    /\ pc = "scalar"
    /\ results = <<>>
    /\ file = NoFile
    /\ NoStream
    /\ NoTree

Apply(out) ==
    /\ pc = "scalar"
    /\ scalarOut = NoOut
    /\ scalarOut' = out
    /\ UNCHANGED <<input, goVars, src, pos, stack, now, pc, results, file, frag, streamVars, treeVars>>

dot == "."

RECURSIVE DataTypeScan(_, _, _)
\* the loop of DataType over the bytes after a leading digit
DataTypeScan(data, p, seenDot) ==
    IF p > Len(data) THEN (IF seenDot THEN FTFloat ELSE FTInt)
    ELSE IF data[p] = dot /\ ~seenDot THEN DataTypeScan(data, p + 1, TRUE)
    ELSE FTString        \* the break after the switch leaves the loop

\* DataType(data): [t, err]
DataType(data) ==
    IF data = <<>> THEN [t |-> FTNull, err |-> "could not read rune in data"]
    ELSE IF data \in {<<"t", "r", "u", "e">>, <<"f", "a", "l", "s", "e">>}
    THEN [t |-> FTBool, err |-> NoErr]
    ELSE IF data = <<"n", "u", "l", "l">> THEN [t |-> FTNull, err |-> NoErr]
    ELSE IF IsNumber(data[1]) THEN [t |-> DataTypeScan(data, 2, FALSE), err |-> NoErr]
    ELSE [t |-> FTString, err |-> NoErr]

\* isQuote on what ReadBytes('"') returns: bytes up to and including the first quote
callIsQuote ==
    /\ IndexFrom(frag, 1, doubleQuote) = Len(frag)
    /\ Len(frag) >= 1
    /\ Apply(ScalarOut("isQuote", isQuote(frag), <<>>, FTNull, NoErr, 0))

\* getString(b, true) on a reader whose next byte is the opening quote
callGetString ==
    /\ Len(frag) >= 1
    /\ frag[1] = doubleQuote
    /\ LET g == getString(frag, 1, TRUE) IN
       Apply(ScalarOut("getString", g.err = NoErr, g.value, FTString, g.err, g.pos))

\* decodeNumber on a reader whose next byte valueCheck found to be a digit
callDecodeNumber ==
    /\ Len(frag) >= 1
    /\ IsNumber(frag[1])
    /\ LET n == decodeNumber(frag, 1, <<"a">>, now) IN
       Apply(ScalarOut("decodeNumber", n.err = NoErr, n.file.value, n.file.t,
                       n.err, n.pos))

\* DataType on the payload of a WriteFile
callDataType ==
    /\ pc = "scalar"
    /\ LET ft == DataType(frag) IN
       Apply(ScalarOut("DataType", ft.err = NoErr, frag, ft.t, ft.err, 0))

NextScalar == callIsQuote \/ callGetString \/ callDecodeNumber \/ callDataType

SpecScalar == InitScalar /\ [][NextScalar]_vars

-----------------------------------------------------------------------------
(* Claims about the scalar codec, under SpecScalar. *)

\* the number of backslashes that stand, without a gap, right before index i
\* of b and after index lo
BackslashRun(b, lo, i) ==
    LET ks == {k \in 0..(i - lo - 1) : \A j \in 1..k : b[i - j] = backslash}
    IN  CHOOSE k \in ks : \A m \in ks : m <= k

Even(n) == n % 2 = 0

\* C3: isQuote of a fragment that ends in a double quote is true exactly when
\* the number of contiguous backslashes right before that quote is even.
C3_IsQuoteParity ==
    scalarOut.fn = "isQuote" =>
        (scalarOut.ok <=> Even(BackslashRun(frag, 0, Len(frag))))

\* C3 witness: isQuote has answered for three backslashes and a quote, and for
\* fragments of length 1 and 2
C3_Witness ==
    /\ scalarOut.fn = "isQuote"
    /\ frag = <<backslash, backslash, backslash, doubleQuote>>
    /\ ~scalarOut.ok

C3_WitnessShort ==
    /\ scalarOut.fn = "isQuote"
    /\ frag = <<backslash, doubleQuote>>
    /\ ~scalarOut.ok

\* the quotes of b after the opening one that an even run of backslashes precedes
Terminators(b) ==
    {i \in 2..Len(b) : b[i] = doubleQuote /\ Even(BackslashRun(b, 1, i))}

FirstTerminator(b) == CHOOSE i \in Terminators(b) : \A j \in Terminators(b) : i <= j

\* C4: getString returns exactly the bytes between the opening quote and the
\* first later quote that an even number of backslashes precedes, escapes left
\* in place, and leaves the reader just after that quote; when the input ends
\* before such a quote it returns the unterminated-string error.
C4_GetString ==
    scalarOut.fn = "getString" =>
        IF Terminators(frag) = {}
        THEN scalarOut.err = "string did not end with a double quote"
        ELSE /\ scalarOut.err = NoErr
             /\ scalarOut.value = SubSeq(frag, 2, FirstTerminator(frag) - 1)
             /\ scalarOut.pos = FirstTerminator(frag) + 1

\* C4 witness: a string with an escaped quote inside and bytes after its end
C4_Witness ==
    /\ scalarOut.fn = "getString"
    /\ frag = <<doubleQuote, backslash, doubleQuote, "x", doubleQuote, "1">>
    /\ scalarOut.value = <<backslash, doubleQuote, "x">>
    /\ scalarOut.pos = 6

RECURSIVE Count(_, _)
\* how many times c occurs in s
Count(s, c) ==
    IF s = <<>> THEN 0
    ELSE (IF Head(s) = c THEN 1 ELSE 0) + Count(Tail(s), c)

\* the longest run of digits holding at most one "." that b starts with
NumberPrefixLen(b) ==
    LET ok == {n \in 0..Len(b) :
                 /\ \A i \in 1..n : IsNumber(b[i]) \/ b[i] = "."
                 /\ Count(SubSeq(b, 1, n), ".") <= 1}
    IN  CHOOSE n \in ok : \A m \in ok : m <= n

\* C10: decodeNumber consumes consecutive digits and at most one ".": a second
\* "." ends the scan and is pushed back, so the raw value of a decoded number
\* holds at most one ".", and the File is Float exactly when one "." was
\* consumed and Int otherwise.
C10_NumberOneDot ==
    (scalarOut.fn = "decodeNumber" /\ scalarOut.err = NoErr) =>
        /\ Count(scalarOut.value, ".") <= 1
        /\ scalarOut.value = SubSeq(frag, 1, NumberPrefixLen(frag))
        /\ scalarOut.pos = NumberPrefixLen(frag) + 1
        /\ scalarOut.t = (IF Count(scalarOut.value, ".") = 1 THEN FTFloat ELSE FTInt)

-----------------------------------------------------------------------------
(* Claims about the decoder and the encoder, under Spec. *)

RECURSIVE ValueOfDir(_)

\* a File without its modification time: name, kind and raw value
ValueOfFile(f) == [name |-> f.name, t |-> f.t, value |-> f.value]

\* a child without modification times
ValueOfObject(o) ==
    [Type |-> o.Type, File |-> ValueOfFile(o.File),
     Dir |-> IF o.Type = OTDir THEN ValueOfDir(o.Dir) ELSE ValueOfDir(ZeroDir)]

\* a Directory without modification times: the value two Directories are
\* compared by
ValueOfDir(d) ==
    [name |-> d.name, isArray |-> d.isArray,
     objs |-> [k \in DOMAIN d.objs |-> ValueOfObject(d.objs[k])]]

\* the first UnmarshalJSON call has returned
Decoded == Len(results) >= 1

\* both UnmarshalJSON calls have returned
Redecoded == Len(results) = 2

\* C1: for a Directory d that UnmarshalJSON returned, MarshalJSON(d) succeeds
\* and UnmarshalJSON of its output returns a Directory value-equal to d: the
\* same child names at every level, the same isArray flags, and for every File
\* the same kind and the same raw value.
C1_RoundTrip ==
    /\ file # NoFile => file.err = NoErr
    /\ Redecoded =>
          /\ results[2].err = NoErr
          /\ ValueOfDir(results[2].dir) = ValueOfDir(results[1].dir)

\* some child of d is an array Directory that holds a String File
HoldsStringArray(d) ==
    \E k \in DOMAIN d.objs :
        /\ d.objs[k].Type = OTDir
        /\ d.objs[k].Dir.isArray
        /\ \E i \in DOMAIN d.objs[k].Dir.objs :
              /\ d.objs[k].Dir.objs[i].Type = OTFile
              /\ d.objs[k].Dir.objs[i].File.t = FTString

\* C1 witness: a document holding an array with a string in it went through
\* decode, encode and decode
C1_Witness ==
    /\ Redecoded
    /\ results[2].err = NoErr
    /\ HoldsStringArray(results[2].dir)

\* C1 witness: so did a document with two keys, one of them a nested object
C1_WitnessNested ==
    /\ Redecoded
    /\ Cardinality(DOMAIN results[2].dir.objs) = 2
    /\ \E k \in DOMAIN results[2].dir.objs :
          /\ results[2].dir.objs[k].Type = OTDir
          /\ ~results[2].dir.objs[k].Dir.isArray
          /\ results[2].dir.objs[k].Dir.objs # EmptyMap

RECURSIVE HasDuplicate(_)
\* some object of the document has the same key twice
HasDuplicate(v) ==
    \/ /\ v.t = "object"
       /\ \E i, j \in 1..Len(v.es) : i # j /\ v.es[i].k = v.es[j].k
    \/ \E i \in 1..Len(v.es) : HasDuplicate(v.es[i].v)

RECURSIVE AllLiterals(_)
\* every scalar of the document is a literal of the wire format
AllLiterals(v) ==
    IF v.t = "scalar" THEN v.text \in Literals
    ELSE \A i \in 1..Len(v.es) : AllLiterals(v.es[i].v)

\* a top-level object whose text is well formed, duplicates aside
WellFormed(v) == v.t = "object" /\ AllLiterals(v)

\* a valid document
ValidDoc(v) == WellFormed(v) /\ ~HasDuplicate(v)

\* C2: decoding an object in which the same key occurs twice at one level
\* fails with the duplicate-key error, whatever the kinds of the two values and
\* at whatever depth the object sits; no Directory is returned.
C2_DuplicateRejected ==
    (Decoded /\ input.family = "doc" /\ WellFormed(input.ast)
       /\ HasDuplicate(input.ast)) =>
        /\ results[1].err = "had duplicate field named"
        /\ results[1].dir = ZeroDir

\* C2 witness: the repeated key sits in a nested object, and its two values
\* are a Directory and a File
C2_Witness ==
    /\ Decoded
    /\ input.family = "doc"
    /\ input.ast = Obj(<<<<"a">>>>,
                       <<Obj(<<<<"b">>, <<"b">>>>, <<Arr(<<>>), Scalar(<<"1">>)>>)>>)
    /\ results[1].err = "had duplicate field named"

\* the input is nothing but space
Blank(text) == \A i \in 1..Len(text) : IsSpace(text[i])

\* the input, after leading space, begins with one complete object
BeginsWithObject == input.family \in {"doc", "spaced"} /\ input.ast.t = "object"

\* C5 as claimed: UnmarshalJSON returns a nil error only when the input, after
\* leading space, begins with one complete JSON object; a bare array, a bare
\* scalar, a truncated object and empty or space-only input are all rejected.
C5_NilOnlyForObject ==
    (Decoded /\ results[1].err = NoErr) => BeginsWithObject

\* C5 as amended: a nil error is returned only for an input that begins with
\* one complete object or that is empty or nothing but space; a bare array, a
\* bare scalar and an object cut at any point are rejected with an error, and
\* empty or space-only input yields a nil error with a Directory of no children.
C5_NilForObjectOrBlank ==
    Decoded =>
        /\ results[1].err = NoErr => (BeginsWithObject \/ Blank(input.text))
        /\ Blank(input.text) =>
              results[1].err = NoErr /\ results[1].dir.objs = EmptyMap

\* C5 witness: an object cut inside a nested array was rejected
C5_Witness ==
    /\ Decoded
    /\ input.family = "cut"
    /\ input.text = <<openBrace, doubleQuote, "a", doubleQuote, colon, openBracket, "1">>
    /\ results[1].err # NoErr

\* C5 witness: a bare array was rejected, and space-only input was not
C5_WitnessBare ==
    /\ Decoded
    /\ input.family = "doc"
    /\ input.ast.t = "array"
    /\ results[1].err = "object must start with {"

C5_WitnessBlank ==
    /\ Decoded
    /\ input.text = <<" ">>
    /\ results[1].err = NoErr

\* the top frame has recorded an error
Failed == pc = "unmarshal" /\ Depth >= 1 /\ Top.err # NoErr

\* C6: once a machine at any depth has recorded an error, the next step hands
\* that same error to the machine that invoked it, which stops there without
\* reading further and without attaching the failed child; at the top level
\* UnmarshalJSON returns that error with an empty Directory.
C6_ErrorPropagates ==
    [][Failed =>
         IF Depth >= 2
         THEN /\ Len(stack') = Depth - 1
              /\ stack'[Depth - 1].err = Top.err
              /\ stack'[Depth - 1].st = "nil"
              /\ stack'[Depth - 1].dir = Caller.dir
              /\ \A i \in 1..(Depth - 2) : stack'[i] = stack[i]
              /\ pos' = pos
         ELSE results' = Append(results, [dir |-> ZeroDir, err |-> Top.err])]_vars

\* C6 witness: a machine three levels down failed while the top-level machine
\* already held a child
C6_Witness ==
    /\ Failed
    /\ Depth >= 3
    /\ stack[1].dir.objs # EmptyMap

\* C6 witness: and the top-level call then returned that error and no tree
C6_WitnessReturned ==
    /\ Decoded
    /\ input.ast = Obj(<<<<"a">>, <<"b">>>>,
                       <<Scalar(<<"1">>), Arr(<<Arr(<<Scalar(<<"x">>)>>)>>)>>)
    /\ results[1] = [dir |-> ZeroDir, err |-> "unexpected value type after key"]

\* the name the i-th entry of container v is stored under
ChildName(v, i) == IF v.t = "array" THEN Itoa(i - 1) ELSE v.es[i].k

\* the child of d called name, or an Object of unknown type if there is none
Child(d, name) ==
    IF name \in DOMAIN d.objs THEN d.objs[name] ELSE Object(OTUnknown, ZeroFile, ZeroDir)

RECURSIVE Pairs(_, _)
\* every value of document v with the Object found at its place under o
Pairs(v, o) ==
    {<<v, o>>} \cup
    (IF v.t = "scalar" \/ o.Type # OTDir THEN {}
     ELSE UNION {Pairs(v.es[i].v, Child(o.Dir, ChildName(v, i))) : i \in 1..Len(v.es)})

\* the values of the input with the Objects decoded for them
DecodedPairs == Pairs(input.ast, DirObject(results[1].dir))

\* the kind of File a literal decodes to
LitKind(text) ==
    CASE text \in IntLits -> FTInt
      [] text \in FloatLits -> FTFloat
      [] text \in StringLits -> FTString
      [] text \in BoolLits -> FTBool
      [] text \in NullLits -> FTNull

\* the raw value of a literal: its text, without the quotes for a string
LitRaw(text) ==
    IF text \in StringLits THEN SubSeq(text, 2, Len(text) - 1) ELSE text

\* Object o has the kind of value v, and for a scalar its raw value
KindMatches(v, o) ==
    CASE v.t = "scalar" ->
            /\ o.Type = OTFile
            /\ o.File.t = LitKind(v.text)
            /\ o.File.value = LitRaw(v.text)
      [] v.t = "object" -> o.Type = OTDir /\ ~o.Dir.isArray
      [] v.t = "array" -> o.Type = OTDir /\ o.Dir.isArray

\* a valid document was given as written and its decoding has returned
DecodedValid == Decoded /\ input.family = "doc" /\ ValidDoc(input.ast)

\* C7: a JSON array of n values decodes to an array-flagged Directory whose
\* children are exactly "0".."n-1", child i being the i-th value in source
\* order with the kind of its literal (and for a scalar its raw value), named
\* by its index, and whose Len() is n.
C7_ArrayDecode ==
    DecodedValid =>
        /\ results[1].err = NoErr
        /\ \A pr \in DecodedPairs :
              pr[1].t = "array" =>
                  LET n == Len(pr[1].es)
                      d == pr[2].Dir
                  IN  /\ pr[2].Type = OTDir
                      /\ d.isArray
                      /\ DOMAIN d.objs = {Itoa(i) : i \in 0..(n - 1)}
                      /\ DirectoryLen(d) = n
                      /\ \A i \in 1..n :
                            /\ KindMatches(pr[1].es[i].v, d.objs[Itoa(i - 1)])
                            /\ ObjectName(d.objs[Itoa(i - 1)]) = Itoa(i - 1)

\* C7 witness: an array of a string and a float was decoded
C7_Witness ==
    /\ DecodedValid
    /\ input.ast = Obj(<<<<"a">>>>,
                       <<Arr(<<Scalar(Quoted(<<"x">>)), Scalar(<<"1", ".", "5">>)>>)>>)
    /\ results[1].err = NoErr
    /\ DirectoryLen(results[1].dir.objs[<<"a">>].Dir) = 2

\* C7 witness: an array of an array and an object was decoded
C7_WitnessNested ==
    /\ DecodedValid
    /\ input.ast = Obj(<<<<"a">>>>, <<Arr(<<Arr(<<>>), Obj(<<>>, <<>>)>>)>>)
    /\ results[1].err = NoErr
    /\ DirectoryLen(results[1].dir.objs[<<"a">>].Dir) = 2

RECURSIVE HasEmpty(_)
\* some container of the document is empty
HasEmpty(v) ==
    /\ v.t # "scalar"
    /\ \/ Len(v.es) = 0
       \/ \E i \in 1..Len(v.es) : HasEmpty(v.es[i].v)

\* the first UnmarshalJSON call has just returned: the reader is where it
\* left it
JustDecoded == Len(results) = 1 /\ pc = "idle" /\ file = NoFile

\* C8: an empty container, at the top level or nested as a value, decodes to
\* a Directory with no children, and its closing delimiter is consumed: every
\* container around it goes on to hold all of its own entries, and the reader
\* ends after the last byte of the document.
C8_EmptyContainer ==
    (DecodedValid /\ HasEmpty(input.ast)) =>
        /\ results[1].err = NoErr
        /\ \A pr \in DecodedPairs :
              pr[1].t # "scalar" =>
                  /\ KindMatches(pr[1], pr[2])
                  /\ DirectoryLen(pr[2].Dir) = Len(pr[1].es)
                  /\ \A i \in 1..Len(pr[1].es) :
                        ChildName(pr[1], i) \in DOMAIN pr[2].Dir.objs
        /\ JustDecoded => pos = Len(input.text) + 1

\* C8 witness: {"a":{},"b":[]} was decoded
C8_Witness ==
    /\ DecodedValid
    /\ input.ast = Obj(<<<<"a">>, <<"b">>>>, <<Obj(<<>>, <<>>), Arr(<<>>)>>)
    /\ results[1].err = NoErr
    /\ DirectoryLen(results[1].dir) = 2
    /\ DirectoryLen(results[1].dir.objs[<<"a">>].Dir) = 0
    /\ DirectoryLen(results[1].dir.objs[<<"b">>].Dir) = 0

\* C8 witness: so was {}
C8_WitnessTop ==
    /\ JustDecoded
    /\ input.family = "doc"
    /\ input.text = <<openBrace, closeBrace>>
    /\ results[1].err = NoErr
    /\ pos = 3

RECURSIVE Expected(_, _)
\* the value of the Directory a container of a valid document stands for
Expected(v, name) ==
    [name |-> name, isArray |-> v.t = "array",
     objs |-> [k \in {ChildName(v, i) : i \in 1..Len(v.es)} |->
                 LET i == CHOOSE j \in 1..Len(v.es) : ChildName(v, j) = k
                     c == v.es[i].v
                 IN  IF c.t = "scalar"
                     THEN [Type |-> OTFile,
                           File |-> [name |-> k, t |-> LitKind(c.text),
                                     value |-> LitRaw(c.text)],
                           Dir |-> ValueOfDir(ZeroDir)]
                     ELSE [Type |-> OTDir, File |-> ValueOfFile(ZeroFile),
                           Dir |-> Expected(c, k)]]]

\* C9: space put between any two adjacent tokens of a valid document, also
\* between the braces of an empty object and the brackets of an empty array,
\* leaves the decoded Directory value-equal to that of the text as written.
C9_WhitespaceInsignificant ==
    (Decoded /\ input.family \in {"doc", "spaced"} /\ ValidDoc(input.ast)) =>
        /\ results[1].err = NoErr
        /\ ValueOfDir(results[1].dir) = Expected(input.ast, <<>>)

\* the space of a spaced input sits inside an empty container
SpaceInsideEmpty ==
    \E i \in 1..(Len(input.text) - 1) :
        /\ input.text[i] \in {openBrace, openBracket}
        /\ IsSpace(input.text[i + 1])
        /\ skipSpace(input.text, i + 1) <= Len(input.text)
        /\ input.text[skipSpace(input.text, i + 1)] \in {closeBrace, closeBracket}

\* C9 elsewhere: space anywhere but inside an empty container is insignificant
C9_ExceptInsideEmpty ==
    (Decoded /\ input.family \in {"doc", "spaced"} /\ ValidDoc(input.ast)
       /\ ~SpaceInsideEmpty) =>
        /\ results[1].err = NoErr
        /\ ValueOfDir(results[1].dir) = Expected(input.ast, <<>>)

\* C9 inside an empty container: the document is rejected
C9_InsideEmptyRejected ==
    (Decoded /\ input.family = "spaced" /\ ValidDoc(input.ast) /\ SpaceInsideEmpty) =>
        results[1].err # NoErr

-----------------------------------------------------------------------------
(* UnmarshalStream.  The goroutine it starts calls UnmarshalJSON on one     *)
(* bufio.Reader again and again and sends what it returns on a channel of   *)
(* capacity 1; pc is the goroutine's position.  The receiver of the channel *)
(* takes items, and may stop taking them or cancel the context at any time. *)

MaxDocs == 3      \* documents in a stream

\* make(chan Stream, 1)
ChanCap == 1

\* Stream{Dir: d, Err: e}
Stream(d, e) == [Dir |-> d, Err |-> e]

\* one document of a stream: its kind, its syntax tree and its text
StreamDoc(kind, ast, text) == [kind |-> kind, ast |-> ast, text |-> text]

One == Scalar(<<"1">>)

\* well-formed objects with at least one key
GoodDocs ==
    {StreamDoc("good", d, Flatten(Tokens(d))) :
       d \in {Obj(<<<<"a">>, <<"b">>>>, <<One, One>>),
              Obj(<<<<"b">>>>, <<Arr(<<One, Arr(<<>>)>>)>>)}}

\* the empty object
EmptyDocs == {StreamDoc("empty", Obj(<<>>, <<>>), <<openBrace, closeBrace>>)}

\* a malformed document: an object that is cut short, which ends the source
\* inside an object when it is the last and puts a stray byte where a comma
\* or brace is due when another document follows
MalformedDocs ==
    {StreamDoc("bad", Obj(<<<<"a">>>>, <<One>>),
               <<openBrace, doubleQuote, "a", doubleQuote, colon, "1">>)}

StreamDocs == GoodDocs \cup EmptyDocs \cup MalformedDocs

RECURSIVE Concat(_, _)
\* the texts of the documents, each followed by sp
Concat(docs, sp) ==
    IF docs = <<>> THEN <<>> ELSE Head(docs).text \o sp \o Concat(Tail(docs), sp)

\* what separates the documents of a stream
Separators == {<<>>, <<"\n">>}

StreamInputs ==
    {[family |-> "stream", ast |-> Scalar(<<>>), text |-> Concat(docs, sp),
      docs |-> docs] :
       docs \in (SeqsUpTo(StreamDocs, MaxDocs) \ {<<>>}), sp \in Separators}

\* UnmarshalStream(ctx, r) has returned the channel and started the goroutine
InitStream ==
    /\ input \in StreamInputs
    /\ src = input.text
    /\ pos = 1
    /\ stack = <<>>
    /\ now = 1
    /\ pc = "loop"
    /\ results = <<>>
    /\ file = NoFile
    /\ frag = <<>>
    /\ scalarOut = <<>>
    /\ ch = <<>>
    /\ closed = FALSE
    /\ ctxDone = FALSE
    /\ consumer = "receiving"
    /\ received = <<>>
    /\ NoTree

\* what the last UnmarshalJSON call returned
Last == results[Len(results)]

\* the goroutine calls UnmarshalJSON(b) on the reader it already has
streamUnmarshalJSON ==
    /\ pc = "loop"
    /\ stack' = <<dictReset(<<>>)>>
    /\ sm' = PoolTake(sm, "dict")
    /\ pc' = "unmarshal"
    /\ UNCHANGED <<input, lockVars, src, pos, now, results, file, frag, scalarOut,
                   streamVars, treeVars>>

\* the goroutine moves to position p, the channel now holding items
StreamStep(p, items) ==
    /\ pc' = p
    /\ ch' = items
    /\ UNCHANGED <<input, goVars, src, pos, stack, now, results, file, frag, scalarOut,
                   closed, ctxDone, consumer, received, treeVars>>

\* err != nil: ch <- Stream{Err: err}; return
streamSendErr ==
    /\ pc = "idle"
    /\ Last.err # NoErr
    /\ Len(ch) < ChanCap
    /\ StreamStep("closing", Append(ch, Stream(ZeroDir, Last.err)))

\* a Directory with no name and no children: return
streamReturn ==
    /\ pc = "idle"
    /\ Last.err = NoErr
    /\ Last.dir.name = <<>> /\ DirectoryLen(Last.dir) = 0
    /\ StreamStep("closing", ch)

\* a send that does not wait for room in the channel
streamSendDir_Overwrites ==
    /\ pc = "idle"
    /\ Last.err = NoErr
    /\ ~(Last.dir.name = <<>> /\ DirectoryLen(Last.dir) = 0)
    /\ StreamStep("loop", <<Stream(Last.dir, NoErr)>>)

\* ch <- Stream{Dir: dir}
streamSendDir ==
    /\ pc = "idle"
    /\ Last.err = NoErr
    /\ ~(Last.dir.name = <<>> /\ DirectoryLen(Last.dir) = 0)
    /\ Len(ch) < ChanCap
    /\ StreamStep("loop", Append(ch, Stream(Last.dir, NoErr)))

\* defer close(ch)
streamClose ==
    /\ pc = "closing"
    /\ pc' = "done"
    /\ closed' = TRUE
    /\ UNCHANGED <<input, goVars, src, pos, stack, now, results, file, frag, scalarOut,
                   ch, ctxDone, consumer, received, treeVars>>

\* the steps of the goroutine
Producer ==
    \/ streamUnmarshalJSON
    \/ runSM
    \/ UnmarshalJSONReturn
    \/ streamSendErr
    \/ streamReturn
    \/ streamSendDir
    \/ streamClose

\* the receiver changes: the goroutine is left as it is
ConsumerStep ==
    UNCHANGED <<input, goVars, src, pos, stack, now, pc, results, file, frag, scalarOut,
                closed, treeVars>>

\* item := <-ch
Receive ==
    /\ consumer = "receiving"
    /\ ch # <<>>
    /\ received' = Append(received, Head(ch))
    /\ ch' = Tail(ch)
    /\ UNCHANGED <<ctxDone, consumer>>
    /\ ConsumerStep

\* a receive from the closed and empty channel ends the receiver's loop
ReceiveClosed ==
    /\ consumer = "receiving"
    /\ ch = <<>>
    /\ closed
    /\ consumer' = "finished"
    /\ UNCHANGED <<ch, ctxDone, received>>
    /\ ConsumerStep

\* the receiver stops receiving
Abandon ==
    /\ consumer = "receiving"
    /\ consumer' = "stopped"
    /\ UNCHANGED <<ch, ctxDone, received>>
    /\ ConsumerStep

\* the receiver cancels the context it passed to UnmarshalStream
Cancel ==
    /\ ~ctxDone
    /\ consumer # "finished"
    /\ ctxDone' = TRUE
    /\ UNCHANGED <<ch, consumer, received>>
    /\ ConsumerStep

NextStream ==
    \/ Producer
    \/ Receive
    \/ ReceiveClosed
    \/ Abandon
    \/ Cancel

\* a goroutine that can run does run, and a receiver that is receiving takes
\* what the channel offers
SpecStream ==
    /\ InitStream
    /\ [][NextStream]_vars
    /\ WF_vars(Producer)
    /\ WF_vars(Receive \/ ReceiveClosed)

-----------------------------------------------------------------------------
(* Claims about UnmarshalStream, under SpecStream. *)

\* every item the goroutine has sent so far, in the order it sent them
Delivered == received \o ch

\* the documents of the stream
Docs == input.docs

\* the stream holds documents of these kinds only
AllOfKind(kinds) == \A i \in 1..Len(Docs) : Docs[i].kind \in kinds

\* item it carries the Directory of document doc and no error
Carries(it, doc) ==
    /\ it.Err = NoErr
    /\ ValueOfDir(it.Dir) = Expected(doc.ast, <<>>)

\* the first n items sent are the Directories of the first n documents
DeliveredDocs(n) ==
    /\ Len(Delivered) >= n
    /\ \A i \in 1..n : Carries(Delivered[i], Docs[i])

\* at every moment the items sent are the Directories of the first documents,
\* in source order, and once the channel is closed there is one per document
C11_InOrder ==
    /\ Len(Delivered) <= Len(Docs)
    /\ DeliveredDocs(Len(Delivered))
    /\ closed => Len(Delivered) = Len(Docs)

\* the channel is closed and the receiver has taken one item per document
C11_AllTaken == closed /\ ch = <<>> /\ Len(received) = Len(Docs)

\* C11: for a source of n concatenated well-formed non-empty objects the
\* goroutine sends exactly the n Directories, in source order, never an item
\* with Err set, and, as long as the receiver keeps receiving, the channel is
\* closed in the end with all n taken.
C11_StreamDelivers ==
    AllOfKind({"good"}) =>
        /\ []C11_InOrder
        /\ <>(C11_AllTaken \/ consumer = "stopped")

\* C11 witness: three documents were taken and the channel is closed
C11_Witness ==
    /\ AllOfKind({"good"})
    /\ Len(Docs) = 3
    /\ Docs[1] # Docs[2]
    /\ C11_AllTaken
    /\ consumer = "finished"

\* C12: one Directory is sent for every well-formed object of the source, the
\* empty object {} included, so the documents after an empty object are sent
\* too.
C12_EveryObjectYielded ==
    (pc = "done" /\ AllOfKind({"good", "empty"})) =>
        /\ Len(Delivered) = Len(Docs)
        /\ DeliveredDocs(Len(Docs))

\* C12 without empty objects in the source
C12_NonEmptyYielded ==
    (pc = "done" /\ AllOfKind({"good"})) =>
        /\ Len(Delivered) = Len(Docs)
        /\ DeliveredDocs(Len(Docs))

\* C12 at an empty object: the stream ends there with nothing sent for it or
\* for what follows
C12_EndsAtEmpty ==
    (pc = "done" /\ Docs[1].kind = "empty") => Delivered = <<>>

\* the index of the first malformed document
FirstBad == CHOOSE k \in 1..Len(Docs) :
                /\ Docs[k].kind = "bad"
                /\ \A j \in 1..(k - 1) : Docs[j].kind # "bad"

\* C13: when a document of the stream is malformed, the Directories of all
\* earlier documents are sent, then exactly one item with Err set, and
\* nothing after it.
C13_ErrorEndsStream ==
    (pc = "done" /\ ~AllOfKind({"good", "empty"})) =>
        /\ Len(Delivered) = FirstBad
        /\ DeliveredDocs(FirstBad - 1)
        /\ Delivered[FirstBad].Err # NoErr

\* C13 when no empty object comes before the malformed document
C13_AfterNonEmpty ==
    (pc = "done" /\ ~AllOfKind({"good", "empty"})
       /\ \A j \in 1..(FirstBad - 1) : Docs[j].kind = "good") =>
        /\ Len(Delivered) = FirstBad
        /\ DeliveredDocs(FirstBad - 1)
        /\ Delivered[FirstBad].Err # NoErr

\* C13: no item is sent after an item with Err set
C13_NothingAfterErr ==
    \A i \in 1..Len(Delivered) : Delivered[i].Err # NoErr => i = Len(Delivered)

\* C14: once the receiver has stopped receiving or has cancelled the context,
\* the goroutine stops in the end and closes the channel.
C14_ProducerStops == (consumer = "stopped" \/ ctxDone) ~> closed

\* C14 for cancellation alone: a receiver that only cancels goes on
\* receiving, and the goroutine gets to the end of the source
C14_CancelOnly == (ctxDone /\ consumer = "receiving") ~> (closed \/ consumer = "stopped")

\* the goroutine is blocked on a send that nobody will receive
C14_Blocked ==
    /\ consumer = "stopped"
    /\ pc = "idle"
    /\ Len(ch) = ChanCap
    /\ Last.err = NoErr
    /\ DirectoryLen(Last.dir) > 0

-----------------------------------------------------------------------------
(* The tree API: the constructors and the calls that change a Directory.   *)
(* A Go map is shared by every copy of the Directory that holds it, so a    *)
(* call on a sub-directory got from the tree changes the tree: the calling  *)
(* program's tree is root, and a call is made on the Directory found at a   *)
(* path of child names below root.                                          *)

slash == "/"

RECURSIVE SplitFrom(_, _, _)
\* strings.Split(s, "/"), from index p on with cur the element being read
SplitFrom(s, p, cur) ==
    IF p > Len(s) THEN <<cur>>
    ELSE IF s[p] = slash THEN <<cur>> \o SplitFrom(s, p + 1, <<>>)
    ELSE SplitFrom(s, p + 1, Append(cur, s[p]))

Split(s) == SplitFrom(s, 1, <<>>)

RECURSIVE Join(_)
\* strings.Join(elems, "/")
Join(elems) ==
    IF elems = <<>> THEN <<>>
    ELSE IF Len(elems) = 1 THEN elems[1]
    ELSE elems[1] \o <<slash>> \o Join(Tail(elems))

RECURSIVE CleanElems(_, _, _)
\* the elements path.Clean keeps: no empty and no "." element, and ".."
\* taken with the element before it
CleanElems(elems, kept, rooted) ==
    IF elems = <<>> THEN kept
    ELSE LET e == Head(elems)
             rest == Tail(elems)
         IN  IF e = <<>> \/ e = <<dot>> THEN CleanElems(rest, kept, rooted)
             ELSE IF e = <<dot, dot>>
             THEN IF kept # <<>> /\ kept[Len(kept)] # <<dot, dot>>
                  THEN CleanElems(rest, SubSeq(kept, 1, Len(kept) - 1), rooted)
                  ELSE IF rooted THEN CleanElems(rest, kept, rooted)
                  ELSE CleanElems(rest, Append(kept, e), rooted)
             ELSE CleanElems(rest, Append(kept, e), rooted)

\* path.Clean
PathClean(name) ==
    LET rooted == name # <<>> /\ name[1] = slash
        out == (IF rooted THEN <<slash>> ELSE <<>>)
               \o Join(CleanElems(Split(name), <<>>, rooted))
    IN  IF out = <<>> THEN <<dot>> ELSE out

\* the index of the last "/" of s, or 0
LastSlash(s) ==
    LET is == {i \in 1..Len(s) : s[i] = slash} IN
    IF is = {} THEN 0 ELSE CHOOSE i \in is : \A j \in is : j <= i

\* path.Split: [dir, file]
PathSplit(name) ==
    [dir |-> SubSeq(name, 1, LastSlash(name)),
     file |-> SubSeq(name, LastSlash(name) + 1, Len(name))]

\* strings.TrimPrefix(s, "/")
TrimSlash(s) == IF s # <<>> /\ s[1] = slash THEN Tail(s) ELSE s

\* fs.ValidPath
ValidPath(name) ==
    \/ name = <<dot>>
    \/ \A i \in 1..Len(Split(name)) :
          Split(name)[i] \notin {<<>>, <<dot>>, <<dot, dot>>}

\* strconv.FormatInt(x, 10)
FormatInt(x) == IF x < 0 THEN <<"-">> \o Itoa(0 - x) ELSE Itoa(x)

\* strconv.FormatFloat(x, 'f', -1, 64) for x = tenths / 10
FormatFloat(tenths) ==
    LET a == IF tenths < 0 THEN 0 - tenths ELSE tenths
        whole == (IF tenths < 0 THEN <<"-">> ELSE <<>>) \o Itoa(a \div 10)
    IN  IF a % 10 = 0 THEN whole ELSE whole \o <<dot>> \o Itoa(a % 10)

\* values handed to NewFile: a Go value with its dynamic type
IntValue(x) == [type |-> "int", int |-> x]

FloatValue(tenths) == [type |-> "float64", int |-> tenths]

BoolValue(b) == [type |-> "bool", bool |-> b]

StringValue(x) == [type |-> "string", string |-> x]

NilValue == [type |-> "nil"]

OtherValue == [type |-> "struct"]

\* NewFile(name, value): [file, err], with modTime the time of the call
NewFile(name, value, modTime) ==
    LET made(t, b) == [file |-> File(name, modTime, t, b), err |-> NoErr] IN
    CASE value.type = "int" -> made(FTInt, FormatInt(value.int))
      [] value.type = "float64" -> made(FTFloat, FormatFloat(value.int))
      [] value.type = "bool" ->
            made(FTBool, IF value.bool THEN <<"t", "r", "u", "e">>
                         ELSE <<"f", "a", "l", "s", "e">>)
      [] value.type = "string" ->
            made(FTString, <<doubleQuote>> \o value.string \o <<doubleQuote>>)
      [] value.type = "nil" -> made(FTNull, <<"n", "u", "l", "l">>)
      [] OTHER -> [file |-> ZeroFile, err |-> "is not a supported type"]

\* dataToFile(name, data): [file, err]
dataToFile(name, data, modTime) ==
    LET ft == DataType(data) IN
    IF ft.err # NoErr THEN [file |-> ZeroFile, err |-> ft.err]
    ELSE [file |-> File(name, modTime, ft.t, data), err |-> NoErr]

\* a result of a call that returns a Directory and an error
DirErr(d, err) == [dir |-> d, err |-> err]

\* an argument of dynamic type File, Directory, nil or anything else
FileArg(f) == [type |-> "File", File |-> f, Dir |-> ZeroDir]

DirArg(d) == [type |-> "Directory", File |-> ZeroFile, Dir |-> d]

NilArg == [type |-> "nil", File |-> ZeroFile, Dir |-> ZeroDir]

OtherArg == [type |-> "other", File |-> ZeroFile, Dir |-> ZeroDir]

\* delete(m, k)
MapDelete(m, k) == [x \in (DOMAIN m) \ {k} |-> m[x]]

RECURSIVE NewDirRange(_, _)
\* the range loop of NewDir over the arguments left
NewDirRange(d, args) ==
    IF args = <<>> THEN DirErr(d, NoErr)
    ELSE LET x == Head(args) IN
         CASE x.type = "File" ->
                IF x.File.name = <<>> THEN DirErr(ZeroDir, "a passed File had no name")
                ELSE NewDirRange(SetFile(d, x.File.name, x.File), Tail(args))
           [] x.type = "Directory" ->
                IF x.Dir.name = <<>> THEN DirErr(ZeroDir, "a passed Directory had no name")
                ELSE NewDirRange(SetDir(d, x.Dir.name, x.Dir), Tail(args))
           [] OTHER -> DirErr(ZeroDir, "is not a supported type")

\* NewDir(name, filesOrDirs...)
NewDir(name, filesOrDirs, modTime) ==
    NewDirRange([newDir(name, modTime) EXCEPT !.isArray = TRUE], filesOrDirs)

RECURSIVE NewArrayRange(_, _, _)
\* the range loop of NewArray from index i on
NewArrayRange(d, args, i) ==
    IF i > Len(args) THEN DirErr(d, NoErr)
    ELSE LET x == args[i]
             index == Itoa(i - 1)
         IN  CASE x.type = "Directory" ->
                    NewArrayRange(SetDir(d, index, [x.Dir EXCEPT !.name = index]), args, i + 1)
               [] x.type = "File" ->
                    NewArrayRange(SetFile(d, index, [x.File EXCEPT !.name = index]), args, i + 1)
               [] OTHER -> DirErr(ZeroDir, "is not a supported type")

\* NewArray(name, filesOrDirs...)
NewArray(name, filesOrDirs, modTime) ==
    NewArrayRange(newDir(name, modTime), filesOrDirs, 1)

\* the error of the validation loop of Set
SetValidate(args) ==
    LET bad == {i \in 1..Len(args) :
                   \/ args[i].type \notin {"File", "Directory"}
                   \/ args[i].type = "File" /\ args[i].File.name = <<>>
                   \/ args[i].type = "Directory" /\ args[i].Dir.name = <<>>}
    IN  IF bad = {} THEN NoErr
        ELSE LET x == args[CHOOSE i \in bad : \A j \in bad : i <= j] IN
             CASE x.type = "File" -> "a passed File had no name"
               [] x.type = "Directory" -> "a passed Directory had no name"
               [] OTHER -> "is not a supported type"

RECURSIVE SetStore(_, _)
\* the update loop of Set
SetStore(d, args) ==
    IF args = <<>> THEN d
    ELSE LET x == Head(args) IN
         IF x.type = "File"
         THEN SetStore(SetFile(d, x.File.name, x.File), Tail(args))
         ELSE SetStore(SetDir(d, x.Dir.name, x.Dir), Tail(args))

RECURSIVE SetStoreChecking(_, _)
\* an update loop that checks each argument as it comes to it
SetStoreChecking(d, args) ==
    IF args = <<>> THEN DirErr(d, NoErr)
    ELSE IF SetValidate(<<Head(args)>>) # NoErr
    THEN DirErr(d, SetValidate(<<Head(args)>>))
    ELSE SetStoreChecking(SetStore(d, <<Head(args)>>), Tail(args))

\* a Set without the validation loop: the arguments before a bad one are stored
Set_NoValidationFirst(d, filesOrDirs) ==
    IF d.isArray THEN DirErr(d, "Set() does not work on arrays")
    ELSE SetStoreChecking(d, filesOrDirs)

\* d.Set(filesOrDirs...): the Directory afterwards and the error
Set(d, filesOrDirs) ==
    IF d.isArray THEN DirErr(d, "Set() does not work on arrays")
    ELSE IF SetValidate(filesOrDirs) # NoErr THEN DirErr(d, SetValidate(filesOrDirs))
    ELSE DirErr(SetStore(d, filesOrDirs), NoErr)

\* d.WriteFile(name, data)
WriteFile(d, name, data, modTime) ==
    LET clean == PathClean(name)
        sp == PathSplit(clean)
        f == dataToFile(sp.file, data, modTime)
    IN  IF sp.dir # <<>> THEN DirErr(d, "must not be a path, just a filename")
        ELSE IF f.err # NoErr THEN DirErr(d, f.err)
        ELSE DirErr(SetFile(d, clean, f.file), NoErr)

\* a remove that, as in jsonfs.go, returns nil for a name that is no child
remove_NotFoundNil(d, name, children) ==
    IF name \notin DOMAIN d.objs THEN DirErr(d, NoErr)
    ELSE LET o == d.objs[name] IN
         CASE o.Type = OTDir ->
                IF DirectoryLen(o.Dir) # 0 /\ ~children
                THEN DirErr(d, "was not empty")
                ELSE DirErr([d EXCEPT !.objs[name].Dir.objs = MapDelete(o.Dir.objs, name)],
                            NoErr)
           [] o.Type = OTFile -> DirErr([d EXCEPT !.objs = MapDelete(d.objs, name)], NoErr)
           [] OTHER -> DirErr(d, "panic: unsuported object type")

\* d.remove(name, children)
remove(d, name, children) ==
    IF name \notin DOMAIN d.objs THEN DirErr(d, "was not found")
    ELSE LET o == d.objs[name] IN
         CASE o.Type = OTDir ->
                IF DirectoryLen(o.Dir) # 0 /\ ~children
                THEN DirErr(d, "was not empty")
                ELSE DirErr([d EXCEPT !.objs[name].Dir.objs = MapDelete(o.Dir.objs, name)],
                            NoErr)
           [] o.Type = OTFile -> DirErr([d EXCEPT !.objs = MapDelete(d.objs, name)], NoErr)
           [] OTHER -> DirErr(d, "panic: unsuported object type")

Remove(d, name) == remove(d, name, FALSE)

RemoveAll(d, name) == remove(d, name, TRUE)

\* File{t: FTNull, value: "null"}
NullFile == File(<<>>, ZeroTime, FTNull, <<"n", "u", "l", "l">>)

\* ArraySet(array, index, fd)
ArraySet(array, index, fd) ==
    LET indexS == FormatInt(index)
        store(o) == IF indexS \in DOMAIN array.objs
                    THEN [array EXCEPT !.objs = MapSet(array.objs, indexS, o)]
                    ELSE array
    IN  IF ~array.isArray
        THEN DirErr(array, "cannot call ArraySet() on a Dictionary that is not an array")
        ELSE IF index >= DirectoryLen(array) THEN DirErr(array, "index is out of bounds")
        ELSE CASE fd.type = "Directory" -> DirErr(store(DirObject(fd.Dir)), NoErr)
               [] fd.type = "File" -> DirErr(store(FileObject(fd.File)), NoErr)
               [] fd.type = "nil" -> DirErr(store(FileObject(NullFile)), NoErr)
               [] OTHER -> DirErr(array, NoErr)

RECURSIVE AppendRange(_, _, _, _)
\* the range loop of Append from argument i on
AppendRange(array, args, i, start) ==
    IF i > Len(args) THEN array
    ELSE LET x == args[i]
             index == Itoa(i - 1 + start)
             next ==
                CASE x.type = "Directory" -> SetDir(array, index, [x.Dir EXCEPT !.name = index])
                  [] x.type = "File" -> SetFile(array, index, [x.File EXCEPT !.name = index])
                  [] x.type = "nil" -> SetFile(array, index, NullFile)
                  [] OTHER -> array
         IN  AppendRange(next, args, i + 1, start)

\* Append(array, filesOrDirs...)
DirectoryAppend(array, filesOrDirs) ==
    IF ~array.isArray
    THEN DirErr(array, "cannot append to a Dictionary that is not an array")
    ELSE DirErr(AppendRange(array, filesOrDirs, 1, DirectoryLen(array)), NoErr)

RECURSIVE GetDirWalk(_, _, _)
\* the walk of GetDir over the elements p from element i on
GetDirWalk(d, p, i) ==
    IF i < Len(p)
    THEN IF p[i] \notin DOMAIN d.objs THEN DirErr(ZeroDir, "could not find directory")
         ELSE IF d.objs[p[i]].Type # OTDir
         THEN DirErr(ZeroDir, "was a file not a directory")
         ELSE GetDirWalk(d.objs[p[i]].Dir, p, i + 1)
    ELSE IF p[i] \in DOMAIN d.objs /\ d.objs[p[i]].Type = OTDir
         THEN DirErr(d.objs[p[i]].Dir, NoErr)
         ELSE DirErr(ZeroDir, "could not find directory")

\* d.GetDir(name)
GetDir(d, name) ==
    LET n == TrimSlash(PathClean(name)) IN
    IF ~ValidPath(n)
    THEN DirErr(ZeroDir, "invalid name for a path as reported by fs.ValidPath()")
    ELSE IF n = <<dot>> THEN DirErr(d, NoErr)
    ELSE GetDirWalk(d, Split(n), 1)

\* a GetFile that returns whatever is stored under the final component
GetFile_AnyType(d, name) ==
    LET n == TrimSlash(PathClean(name))
        sp == PathSplit(n)
        dd == IF sp.dir # <<>> THEN GetDir(d, sp.dir) ELSE DirErr(d, NoErr)
        none(e) == [file |-> ZeroFile, err |-> e]
    IN  IF ~ValidPath(n)
        THEN none("invalid name for a path as reported by fs.ValidPath()")
        ELSE IF n = <<dot>> THEN none("'.' is not a valid file name")
        ELSE IF dd.err # NoErr THEN none("could not find directory")
        ELSE IF sp.file \in DOMAIN dd.dir.objs
        THEN [file |-> dd.dir.objs[sp.file].File, err |-> NoErr]
        ELSE none("could not find directory")

\* d.GetFile(name): [file, err]
GetFile(d, name) ==
    LET n == TrimSlash(PathClean(name))
        sp == PathSplit(n)
        dd == IF sp.dir # <<>> THEN GetDir(d, sp.dir) ELSE DirErr(d, NoErr)
        none(e) == [file |-> ZeroFile, err |-> e]
    IN  IF ~ValidPath(n)
        THEN none("invalid name for a path as reported by fs.ValidPath()")
        ELSE IF n = <<dot>> THEN none("'.' is not a valid file name")
        ELSE IF dd.err # NoErr THEN none("could not find directory")
        ELSE IF sp.file \in DOMAIN dd.dir.objs /\ dd.dir.objs[sp.file].Type = OTFile
        THEN [file |-> dd.dir.objs[sp.file].File, err |-> NoErr]
        ELSE none("could not find directory")

RECURSIVE DirAt(_, _)
\* the Directory the program reaches from d by the child names of path: a
\* copy of the Directory struct that shares the map of the one in the tree
DirAt(d, path) ==
    IF path = <<>> THEN d ELSE DirAt(d.objs[Head(path)].Dir, Tail(path))

RECURSIVE PutAt(_, _, _)
\* the tree below d once a call on the Directory at path has left its map
\* as that of sub
PutAt(d, path, sub) ==
    IF path = <<>> THEN [d EXCEPT !.objs = sub.objs]
    ELSE [d EXCEPT !.objs[Head(path)].Dir =
              PutAt(d.objs[Head(path)].Dir, Tail(path), sub)]

RECURSIVE IsDirPath(_, _)
\* path names a chain of sub-directories below d
IsDirPath(d, path) ==
    \/ path = <<>>
    \/ /\ Head(path) \in DOMAIN d.objs
       /\ d.objs[Head(path)].Type = OTDir
       /\ IsDirPath(d.objs[Head(path)].Dir, Tail(path))

-----------------------------------------------------------------------------
(* A program that works on a tree: it decodes a document or calls a         *)
(* constructor, makes up to MaxCalls calls that change the tree, on the     *)
(* root or on a sub-directory it looked up, and may then marshal the tree   *)
(* and decode what was written.                                             *)

MaxCalls == 2

TreeDocs ==
    {Obj(<<>>, <<>>),
     Obj(<<<<"b">>>>, <<Arr(<<One, Obj(<<>>, <<>>)>>)>>),
     Obj(<<<<"a">>, <<"b">>>>, <<One, Obj(<<<<"b">>>>, <<One>>)>>)}

TreeInputs == {Input("tree", d, Flatten(Tokens(d))) : d \in TreeDocs}

InitTree ==
    /\ input \in TreeInputs
    /\ src = input.text
    /\ pos = 1
    /\ stack = <<dictReset(<<>>)>>
    /\ now = 1
    /\ pc = "unmarshal"
    /\ results = <<>>
    /\ file = NoFile
    /\ frag = <<>>
    /\ scalarOut = <<>>
    /\ NoStream
    /\ NoTree

\* the values the program builds Files from
FileValues ==
    {IntValue(0 - 5), IntValue(7), BoolValue(TRUE), StringValue(<<"x">>), NilValue}

FileNames == {<<"a">>}

\* Files built by NewFile at time t
NewFiles(t) == {NewFile(n, v, t).file : n \in FileNames, v \in FileValues}

\* Directories built by the constructors at time t, to be put into a tree
NewDirs(t) ==
    {NewDir(<<"b">>, <<>>, t).dir,
     NewArray(<<"a">>, <<FileArg(NewFile(<<"a">>, IntValue(7), t).file)>>, t).dir}

\* the directories calls are made on: the root and its sub-directories
TreePaths == {<<>>} \cup {<<n>> : n \in {k \in DOMAIN root.objs : root.objs[k].Type = OTDir}}

\* the program holds a tree it may call
Holding ==
    /\ pc = "tree"
    /\ file = NoFile
    /\ op.err = NoErr \/ op.fn \notin {"NewDir", "NewArray"}

\* another call may be made
MayCall == Holding /\ op.n < MaxCalls

\* the program keeps the Directory UnmarshalJSON returned
treeHold ==
    /\ pc = "idle"
    /\ Len(results) = 1
    /\ results[1].err = NoErr
    /\ op = NoOp
    /\ root' = results[1].dir
    /\ op' = TreeCall("UnmarshalJSON", <<>>, <<>>, <<>>, 0, NoErr, ZeroDir, 0)
    /\ cp' = cp
    /\ pc' = "tree"
    /\ UNCHANGED <<input, goVars, src, pos, stack, now, results, file, frag, scalarOut, streamVars>>

\* a call on the Directory at path that leaves it as r.dir and returns r.err
TreeStep(fn, path, name, args, index, r) ==
    /\ root' = PutAt(root, path, r.dir)
    /\ op' = TreeCall(fn, path, name, args, index, r.err, root, op.n + 1)
    /\ cp' = cp
    /\ UNCHANGED <<input, goVars, src, pos, stack, pc, results, file, frag, scalarOut, streamVars>>

\* the argument lists of Set
SetArgs(t) ==
    {<<FileArg(f)>> : f \in NewFiles(t)}
    \cup {<<DirArg(d)>> : d \in NewDirs(t)}
    \cup {<<FileArg(f), DirArg(d)>> :
             f \in {NewFile(<<"a">>, IntValue(7), t).file},
             d \in {x \in NewDirs(t) : x.name = <<"a">>}}
    \cup {<<FileArg(NewFile(<<>>, IntValue(7), t).file)>>}
    \cup {<<FileArg(NewFile(<<"b">>, IntValue(7), t).file), x>> :
             x \in {FileArg(NewFile(<<>>, IntValue(7), t).file), OtherArg,
                    DirArg(NewArray(<<"a">>, <<>>, t).dir)}}

\* d.Set(filesOrDirs...) with new Files and Directories
treeSet ==
    /\ MayCall
    /\ \E path \in TreePaths, args \in SetArgs(now) :
         TreeStep("Set", path, <<>>, args, 0, Set(DirAt(root, path), args))
    /\ now' = now + 1

\* MarshalJSON of the tree into a buffer
treeMarshal ==
    /\ Holding
    /\ op.n > 0
    /\ file' \in MarshalJSON(root)
    /\ UNCHANGED <<input, goVars, src, pos, stack, now, pc, results, frag, scalarOut, streamVars, treeVars>>

\* UnmarshalJSON of the buffer
treeUnmarshal ==
    /\ pc = "tree"
    /\ file # NoFile
    /\ file.err = NoErr
    /\ UnmarshalJSONCall(file.out)
    /\ UNCHANGED <<input, lockVars, now, results, file, frag, scalarOut, streamVars, treeVars>>

NextFile ==
    \/ runSM
    \/ UnmarshalJSONReturn
    \/ treeHold
    \/ treeSet
    \/ treeMarshal
    \/ treeUnmarshal

SpecFile == InitTree /\ [][NextFile]_vars

\* the one call made on the decoded tree stored a File built by NewFile
StoredFile ==
    /\ op.fn = "Set"
    /\ op.n = 1
    /\ op.err = NoErr
    /\ Len(op.args) = 1
    /\ op.args[1].type = "File"

\* the tree has been written and what was written has been decoded
Reread == Len(results) = 2 /\ pc = "idle"

\* the File f is found in tree d at path under its name, with its kind and bytes
SameFileAt(d, path, f) ==
    /\ IsDirPath(d, path)
    /\ f.name \in DOMAIN DirAt(d, path).objs
    /\ LET o == DirAt(d, path).objs[f.name] IN
         /\ o.Type = OTFile
         /\ o.File.t = f.t
         /\ o.File.value = f.value

\* C15: a File built by NewFile from a signed integer, a bool, a string or
\* nil and stored in an object Directory is encoded without error, and
\* decoding the output gives a File of the same name, kind and bytes
C15_NewFileRoundTrip ==
    StoredFile =>
      /\ file # NoFile => file.err = NoErr
      /\ Reread =>
           /\ results[2].err = NoErr
           /\ SameFileAt(results[2].dir, op.path, op.args[1].File)

\* the values whose encoding the decoder takes back unchanged
RoundTrips(f) == f.t \in {FTBool, FTNull} \/ (f.t = FTInt /\ f.value[1] # "-")

\* C15, for the Files that do round-trip: a non-negative integer, a bool, nil
C15_UnsignedBoolNil ==
    StoredFile /\ RoundTrips(op.args[1].File) =>
      /\ file # NoFile => file.err = NoErr
      /\ Reread =>
           /\ results[2].err = NoErr
           /\ SameFileAt(results[2].dir, op.path, op.args[1].File)

\* a negative integer was stored, written and read back
C15_Negative == StoredFile /\ Reread /\ op.args[1].File.value = <<"-", "5">>

\* a string was stored, written and read back
C15_String == StoredFile /\ Reread /\ op.args[1].File.t = FTString

-----------------------------------------------------------------------------
(* The tree under every call of the API that changes it.                    *)

\* the Files and Directories handed to the constructors and to the calls
FileA(t) == NewFile(<<"a">>, IntValue(7), t).file

FileATrue(t) == NewFile(<<"a">>, BoolValue(TRUE), t).file

FileB(t) == NewFile(<<"b">>, IntValue(7), t).file

DirA(t) == NewArray(<<"a">>, <<>>, t).dir

\* the argument lists of NewDir
NewDirArgs(t) ==
    {<<>>,
     <<FileArg(FileA(t))>>,
     <<FileArg(FileA(t)), FileArg(FileB(t))>>,
     <<FileArg(FileA(t)), FileArg(FileATrue(t))>>,
     <<FileArg(FileA(t)), DirArg(DirA(t))>>,
     <<DirArg(DirA(t)), FileArg(FileA(t))>>,
     <<FileArg(NewFile(<<>>, IntValue(7), t).file)>>,
     <<OtherArg>>}

\* the argument lists of NewArray
NewArrayArgs(t) ==
    {<<>>,
     <<FileArg(FileA(t))>>,
     <<FileArg(FileA(t)), DirArg(DirA(t))>>,
     <<OtherArg>>}

\* the program builds its tree with a constructor and keeps what is returned
TreeBuilt(fn, args, r) ==
    /\ Len(results) = 1
    /\ op = NoOp
    /\ root' = r.dir
    /\ op' = TreeCall(fn, <<>>, <<>>, args, 0, r.err, ZeroDir, 0)
    /\ cp' = cp
    /\ pc' = "tree"
    /\ now' = now + 1
    /\ UNCHANGED <<input, goVars, src, pos, stack, results, file, frag, scalarOut, streamVars>>

treeNewDir ==
    /\ pc = "idle"
    /\ \E args \in NewDirArgs(now) : TreeBuilt("NewDir", args, NewDir(<<>>, args, now))

treeNewArray ==
    /\ pc = "idle"
    /\ \E args \in NewArrayArgs(now) :
         TreeBuilt("NewArray", args, NewArray(<<>>, args, now))

WriteNames == {<<"a">>, <<"b">>, <<"b", "/", "a">>, <<"a", "/">>}

WriteData == {<<"1">>, <<>>, <<openBrace, closeBrace>>, <<openBracket, "1", closeBracket>>}

\* d.WriteFile(name, data)
treeWriteFile ==
    /\ MayCall
    /\ \E path \in TreePaths, name \in WriteNames, data \in WriteData :
         TreeStep("WriteFile", path, name, data, 0,
                  WriteFile(DirAt(root, path), name, data, now))
    /\ now' = now + 1

\* the names Remove and RemoveAll are called with: the children and one more
RemoveNames(d) == DOMAIN d.objs \cup {<<"z">>}

\* d.Remove(name)
treeRemove ==
    /\ MayCall
    /\ \E path \in TreePaths :
         \E name \in RemoveNames(DirAt(root, path)) :
           TreeStep("Remove", path, name, <<>>, 0, Remove(DirAt(root, path), name))
    /\ UNCHANGED now

\* d.RemoveAll(name)
treeRemoveAll ==
    /\ MayCall
    /\ \E path \in TreePaths :
         \E name \in RemoveNames(DirAt(root, path)) :
           TreeStep("RemoveAll", path, name, <<>>, 0, RemoveAll(DirAt(root, path), name))
    /\ UNCHANGED now

\* the argument lists of Append
AppendArgs(t) == {<<NilArg>>, <<FileArg(FileA(t))>>, <<DirArg(DirA(t)), NilArg>>}

\* Append(array, filesOrDirs...)
treeAppend ==
    /\ MayCall
    /\ \E path \in TreePaths, args \in AppendArgs(now) :
         TreeStep("Append", path, <<>>, args, 0, DirectoryAppend(DirAt(root, path), args))
    /\ now' = now + 1

Indexes == {0 - 1, 0, 1}

\* ArraySet(array, index, fd)
treeArraySet ==
    /\ MayCall
    /\ \E path \in TreePaths, index \in Indexes,
          fd \in {NilArg, FileArg(FileA(now)), DirArg(DirA(now))} :
         TreeStep("ArraySet", path, <<>>, <<fd>>, index,
                  ArraySet(DirAt(root, path), index, fd))
    /\ now' = now + 1

NextTree ==
    \/ runSM
    \/ UnmarshalJSONReturn
    \/ treeHold
    \/ treeNewDir
    \/ treeNewArray
    \/ treeSet
    \/ treeWriteFile
    \/ treeRemove
    \/ treeRemoveAll
    \/ treeAppend
    \/ treeArraySet

SpecTree == InitTree /\ [][NextTree]_vars

-----------------------------------------------------------------------------
(* The constructors.                                                        *)

\* the decimal strings "0".."n-1"
IndexNames(n) == {Itoa(i) : i \in 0..(n - 1)}

\* the constructor fn has just returned the tree without error
Built(fn) == pc = "tree" /\ op.fn = fn /\ op.err = NoErr

\* d is taken by Set and by MarshalJSON
AcceptedAsObject(d) ==
    /\ Set(d, <<FileArg(FileB(now))>>).err = NoErr
    /\ \A e \in MarshalJSON(d) : e.err = NoErr

\* d is taken by Append and, where it has an element, by ArraySet
AcceptedAsArray(d) ==
    /\ DirectoryAppend(d, <<NilArg>>).err = NoErr
    /\ DirectoryLen(d) > 0 => ArraySet(d, 0, NilArg).err = NoErr

\* C16: NewDir returns a Directory that is no array, which Set and
\* MarshalJSON accept; NewArray returns one that is an array with children
\* named "0".."n-1", which Append and ArraySet accept
C16_ConstructorFlags ==
    /\ Built("NewDir") => ~root.isArray /\ AcceptedAsObject(root)
    /\ Built("NewArray") =>
         /\ root.isArray
         /\ DOMAIN root.objs = IndexNames(DirectoryLen(root))
         /\ AcceptedAsArray(root)

\* C16, as the code has it: the flag is set by NewDir and not by NewArray,
\* so each result is refused by the calls meant for it
C16_FlagsSwapped ==
    /\ Built("NewDir") =>
         /\ root.isArray
         /\ Set(root, <<FileArg(FileB(now))>>).err = "Set() does not work on arrays"
         /\ \A e \in MarshalJSON(root) : e.err # NoErr
    /\ Built("NewArray") =>
         /\ ~root.isArray
         /\ DOMAIN root.objs = IndexNames(DirectoryLen(root))
         /\ DirectoryAppend(root, <<NilArg>>).err # NoErr
         /\ ArraySet(root, 0, NilArg).err # NoErr

\* NewDir has returned a Directory with a File in it
C16_BuiltDir == Built("NewDir") /\ DirectoryLen(root) = 2

\* NewArray has returned a Directory of two elements
C16_BuiltArray == Built("NewArray") /\ DirectoryLen(root) = 2

\* the name an argument carries
ArgName(x) == IF x.type = "File" THEN x.File.name ELSE x.Dir.name

\* two of the Files and Directories args carry the same name
SameNameTwice(args) ==
    /\ \A i \in 1..Len(args) : args[i].type \in {"File", "Directory"}
    /\ \E i, j \in 1..Len(args) : i # j /\ ArgName(args[i]) = ArgName(args[j])

\* NewDir has just returned
CalledNewDir == pc = "tree" /\ op.fn = "NewDir"

\* C17: NewDir given two arguments of the same name returns an error
C17_DuplicateArgsRejected ==
    CalledNewDir /\ SameNameTwice(op.args) => op.err # NoErr

\* C17, as the code has it: NewDir given two arguments of one name returns
\* no error, and the Directory holds only the later of the two
C17_LaterReplaces ==
    CalledNewDir /\ Len(op.args) = 2 /\ SameNameTwice(op.args) =>
      /\ op.err = NoErr
      /\ DirectoryLen(root) = 1
      /\ LET o == root.objs[ArgName(op.args[2])] IN
           IF op.args[2].type = "File"
           THEN o = FileObject(op.args[2].File)
           ELSE o = DirObject(op.args[2].Dir)

\* NewDir was given a File and a Directory of the same name
C17_FileAndDir ==
    /\ CalledNewDir
    /\ SameNameTwice(op.args)
    /\ op.args[1].type = "File"
    /\ op.args[2].type = "Directory"

-----------------------------------------------------------------------------
(* Children of a Directory.  In the revision with one map of Objects a      *)
(* child is tagged File or Directory; the revision of jsonfs.go that the    *)
(* decoder writes to keeps sub-directories and Files in two maps, dirs and  *)
(* files, and is modelled here with its Set and WriteFile.                  *)

RECURSIVE Subtrees(_)
\* d and every Directory below it
Subtrees(d) ==
    {d} \cup UNION {Subtrees(d.objs[k].Dir) : k \in {n \in DOMAIN d.objs : d.objs[n].Type = OTDir}}

\* o is a File or a Directory and holds nothing of the other
Tagged(o) ==
    \/ o.Type = OTFile /\ o.Dir = ZeroDir
    \/ o.Type = OTDir /\ o.File = ZeroFile

\* with the one map of Objects: every child of every Directory of the tree
\* is one Object, tagged File or Directory
C18_TaggedChildren ==
    pc = "tree" => \A d \in Subtrees(root) : \A k \in DOMAIN d.objs : Tagged(d.objs[k])

\* a Directory called "a" has been put where a File was
C18_DirOverFile ==
    /\ pc = "tree"
    /\ op.fn = "Set"
    /\ op.err = NoErr
    /\ <<"a">> \in DOMAIN op.before.objs
    /\ op.before.objs[<<"a">>].Type = OTFile
    /\ root.objs[<<"a">>].Type = OTDir

\* the Directory of jsonfs.go
EarlierDirectory(name, modTime, dirs, files, isArray) ==
    [name |-> name, modTime |-> modTime, dirs |-> dirs, files |-> files,
     isArray |-> isArray]

RECURSIVE DirsFiles(_)
\* the Directory d as the decoder builds it in the two maps
DirsFiles(d) ==
    LET ds == {k \in DOMAIN d.objs : d.objs[k].Type = OTDir}
        fs == {k \in DOMAIN d.objs : d.objs[k].Type = OTFile}
    IN  EarlierDirectory(d.name, d.modTime,
                         [k \in ds |-> DirsFiles(d.objs[k].Dir)],
                         [k \in fs |-> d.objs[k].File], d.isArray)

\* an argument that is a Directory of jsonfs.go
EarlierDirArg(d) == [type |-> "Directory", File |-> ZeroFile, Dir |-> DirsFiles(d)]

RECURSIVE EarlierSetStore(_, _)
\* the update loop of Set in jsonfs.go
EarlierSetStore(d, args) ==
    IF args = <<>> THEN d
    ELSE LET x == Head(args) IN
         IF x.type = "File"
         THEN EarlierSetStore([d EXCEPT !.files = MapSet(d.files, x.File.name, x.File)],
                              Tail(args))
         ELSE EarlierSetStore([d EXCEPT !.dirs = MapSet(d.dirs, x.Dir.name, x.Dir)],
                              Tail(args))

\* d.Set(filesOrDirs...) in jsonfs.go
EarlierSet(d, filesOrDirs) ==
    IF d.isArray THEN DirErr(d, "Set() does not work on arrays")
    ELSE IF SetValidate(filesOrDirs) # NoErr THEN DirErr(d, SetValidate(filesOrDirs))
    ELSE DirErr(EarlierSetStore(d, filesOrDirs), NoErr)

\* dataToFile in jsonfs.go
EarlierDataToFile(name, data, modTime) ==
    IF data = <<>>
    THEN [file |-> ZeroFile, err |-> "could not read rune in WriteFile data"]
    ELSE IF data[1] = openBrace
    THEN [file |-> ZeroFile, err |-> "file cannot be a JSON object"]
    ELSE IF data[1] = openBracket
    THEN [file |-> ZeroFile, err |-> "file cannot be a JSON array"]
    ELSE [file |-> File(name, modTime, DataType(data).t, data), err |-> NoErr]

\* d.WriteFile(name, data) in jsonfs.go
EarlierWriteFile(d, name, data, modTime) ==
    LET clean == PathClean(name)
        sp == PathSplit(clean)
        f == EarlierDataToFile(sp.file, data, modTime)
    IN  IF sp.dir # <<>> THEN DirErr(d, "must not be a path, just a filename")
        ELSE IF f.err # NoErr THEN DirErr(d, f.err)
        ELSE DirErr([d EXCEPT !.files = MapSet(d.files, clean, f.file)], NoErr)

\* the program keeps the Directory UnmarshalJSON returned
earlierHold ==
    /\ pc = "idle"
    /\ Len(results) = 1
    /\ results[1].err = NoErr
    /\ op = NoOp
    /\ root' = DirsFiles(results[1].dir)
    /\ op' = TreeCall("UnmarshalJSON", <<>>, <<>>, <<>>, 0, NoErr, ZeroDir, 0)
    /\ cp' = cp
    /\ pc' = "tree"
    /\ UNCHANGED <<input, goVars, src, pos, stack, now, results, file, frag, scalarOut, streamVars>>

\* a call on the root that leaves it as r.dir and returns r.err
EarlierStep(fn, name, args, r) ==
    /\ root' = r.dir
    /\ op' = TreeCall(fn, <<>>, name, args, 0, r.err, root, op.n + 1)
    /\ cp' = cp
    /\ now' = now + 1
    /\ UNCHANGED <<input, goVars, src, pos, stack, pc, results, file, frag, scalarOut, streamVars>>

\* the argument lists of Set
EarlierSetArgs(t) ==
    {<<FileArg(FileA(t))>>, <<FileArg(FileB(t))>>, <<EarlierDirArg(DirA(t))>>,
     <<FileArg(FileB(t)), EarlierDirArg(DirA(t))>>,
     <<FileArg(NewFile(<<>>, IntValue(7), t).file)>>}

earlierSet ==
    /\ MayCall
    /\ \E args \in EarlierSetArgs(now) :
         EarlierStep("Set", <<>>, args, EarlierSet(root, args))

earlierWriteFile ==
    /\ MayCall
    /\ \E name \in WriteNames, data \in WriteData \cup {<<openBrace, closeBrace>>} :
         EarlierStep("WriteFile", name, <<>>, EarlierWriteFile(root, name, data, now))

NextEarlier ==
    \/ runSM
    \/ UnmarshalJSONReturn
    \/ earlierHold
    \/ earlierSet
    \/ earlierWriteFile

SpecEarlier == InitTree /\ [][NextEarlier]_vars

\* C18: in every Directory reached by decoding and by calls of Set and
\* WriteFile, a name denotes one child, a File or a sub-directory, never
\* both at once
C18_OneChildPerName ==
    pc = "tree" => DOMAIN root.dirs \cap DOMAIN root.files = {}

\* C18 for what the decoder returns: no name is in both maps
C18_DecodedOneChildPerName ==
    pc = "tree" /\ op.fn = "UnmarshalJSON" => DOMAIN root.dirs \cap DOMAIN root.files = {}

\* a name is both a File and a sub-directory
C18_FileAndDir == pc = "tree" /\ <<"a">> \in DOMAIN root.dirs \cap DOMAIN root.files

-----------------------------------------------------------------------------
(* Arrays.                                                                  *)

\* the children of d are named "0".."n-1" with n = d.Len()
Contiguous(d) == DOMAIN d.objs = IndexNames(DirectoryLen(d))

\* C19: after any sequence of calls the children of every array-flagged
\* Directory of the tree are named exactly "0".."n-1" with n = Len()
C19_ArrayContiguity ==
    pc = "tree" => \A d \in Subtrees(root) : d.isArray => Contiguous(d)

\* the last call was fn, made without error on an array that was contiguous
OnArray(fn) ==
    /\ pc = "tree"
    /\ op.fn = fn
    /\ op.err = NoErr
    /\ DirAt(op.before, op.path).isArray
    /\ Contiguous(DirAt(op.before, op.path))

\* C19 for Append and ArraySet alone: they leave a contiguous array contiguous
C19_AppendArraySetKeep ==
    OnArray("Append") \/ OnArray("ArraySet") => Contiguous(DirAt(root, op.path))

\* Remove of the first element of a decoded array has left a gap
C19_GapAfterRemove ==
    /\ OnArray("Remove")
    /\ ~root.isArray
    /\ op.name = <<"0">>
    /\ DirAt(root, op.path).isArray
    /\ DOMAIN DirAt(root, op.path).objs = {<<"1">>}

\* WriteFile has put a child whose name is no index into a decoded array
C19_NamedChildInArray ==
    /\ OnArray("WriteFile")
    /\ ~root.isArray
    /\ <<"a">> \in DOMAIN DirAt(root, op.path).objs

-----------------------------------------------------------------------------
(* Remove and RemoveAll.                                                    *)

\* Remove or RemoveAll has just returned nil
Removed == pc = "tree" /\ op.fn \in {"Remove", "RemoveAll"} /\ op.err = NoErr

\* the Directory the last call was made on, before the call and after it
Before == DirAt(op.before, op.path)

After == DirAt(root, op.path)

\* name is gone from After, which has one child less, and the tree is
\* otherwise the tree before the call
GoneAlone(name) ==
    /\ name \notin DOMAIN After.objs
    /\ GetDir(After, name).err # NoErr
    /\ GetFile(After, name).err # NoErr
    /\ DirectoryLen(After) = DirectoryLen(Before) - 1
    /\ root = PutAt(op.before, op.path,
                    [Before EXCEPT !.objs = MapDelete(Before.objs, name)])

\* C20: after Remove(name) or RemoveAll(name) returns nil, name is no child
\* of the Directory any more, File or sub-directory alike: its lookup fails,
\* Len() is one less, and nothing else in the tree has been removed
C20_RemoveRemoves == Removed => GoneAlone(op.name)

\* C20 for a File: it is removed, and alone
C20_FileRemoved ==
    Removed /\ Before.objs[op.name].Type = OTFile => GoneAlone(op.name)

\* as the code has it for a sub-directory: it stays a child, Len() is the
\* same, and what is deleted is the child of that name inside it
C20_DirStays ==
    Removed /\ Before.objs[op.name].Type = OTDir =>
      /\ GetDir(After, op.name).err = NoErr
      /\ DirectoryLen(After) = DirectoryLen(Before)
      /\ DOMAIN After.objs[op.name].Dir.objs
           = DOMAIN Before.objs[op.name].Dir.objs \ {op.name}

\* Remove of an empty sub-directory has returned nil
C20_EmptyDirKept ==
    /\ Removed
    /\ op.fn = "Remove"
    /\ Before.objs[op.name].Type = OTDir
    /\ op.name \in DOMAIN After.objs

\* RemoveAll of a sub-directory has removed a grandchild of the same name
C20_GrandchildRemoved ==
    /\ Removed
    /\ op.fn = "RemoveAll"
    /\ Before.objs[op.name].Type = OTDir
    /\ op.name \in DOMAIN Before.objs[op.name].Dir.objs
    /\ op.name \notin DOMAIN After.objs[op.name].Dir.objs

\* Remove of a File has returned nil
C20_FileGone == Removed /\ Before.objs[op.name].Type = OTFile /\ op.path = <<"b">>

-----------------------------------------------------------------------------
(* Calls that fail.                                                         *)

\* the last call on the tree was fn
Called(fn) == pc = "tree" /\ op.fn = fn

\* the last call was Remove or RemoveAll of a name that was no child
RemovedMissing ==
    /\ Called("Remove") \/ Called("RemoveAll")
    /\ op.name \notin DOMAIN Before.objs

\* the last call was Remove of a sub-directory that had children
RemovedNonEmpty ==
    /\ Called("Remove")
    /\ op.name \in DOMAIN Before.objs
    /\ Before.objs[op.name].Type = OTDir
    /\ DirectoryLen(Before.objs[op.name].Dir) > 0

C21_WitnessMissing == RemovedMissing /\ op.path = <<"b">> /\ op.fn = "Remove"

\* an argument of args has no name or is neither a File nor a Directory
BadArg(args) ==
    \E i \in 1..Len(args) :
       \/ args[i].type \notin {"File", "Directory"}
       \/ ArgName(args[i]) = <<>>

\* the Object an argument is stored as
ArgObject(x) == IF x.type = "File" THEN FileObject(x.File) ELSE DirObject(x.Dir)

\* the names the arguments carry
ArgNames(args) == {ArgName(args[i]) : i \in 1..Len(args)}

\* the arguments are children of d under their names (of two arguments with
\* one name, the later), and the other children of d are those of b
StoredAll(b, d, args) ==
    /\ DOMAIN d.objs = DOMAIN b.objs \cup ArgNames(args)
    /\ \A i \in 1..Len(args) :
         (\A j \in (i + 1)..Len(args) : ArgName(args[j]) # ArgName(args[i]))
           => d.objs[ArgName(args[i])] = ArgObject(args[i])
    /\ \A k \in DOMAIN b.objs \ ArgNames(args) : d.objs[k] = b.objs[k]

\* C22: Set on an array, or with an argument that has no name or is neither a
\* File nor a Directory, returns an error and changes nothing; any other Set
\* returns nil with every argument stored under its name, in place of what
\* was there, and all else as before
C22_SetAllOrNothing ==
    Called("Set") =>
      IF Before.isArray \/ BadArg(op.args)
      THEN op.err # NoErr /\ root = op.before
      ELSE /\ op.err = NoErr
           /\ StoredAll(Before, After, op.args)
           /\ root = PutAt(op.before, op.path, After)

\* a Set whose second argument is bad has returned
C22_Witness ==
    /\ Called("Set")
    /\ ~Before.isArray
    /\ Len(op.args) = 2
    /\ BadArg(op.args)
    /\ ~BadArg(<<op.args[1]>>)

\* a Set of a File and a Directory has replaced a child
C22_WitnessStored ==
    /\ Called("Set")
    /\ op.err = NoErr
    /\ Len(op.args) = 2
    /\ ArgName(op.args[1]) # ArgName(op.args[2])
    /\ ArgNames(op.args) \subseteq DOMAIN Before.objs
    /\ After # Before

\* a Set on an array has returned
C22_WitnessArray == Called("Set") /\ Before.isArray /\ DirectoryLen(Before) = 2

\* the payload begins with the brace of an object or the bracket of an array
ObjectOrArrayShaped(data) == data # <<>> /\ data[1] \in {openBrace, openBracket}

\* the name has a path separator in it
HasSeparator(name) == \E i \in 1..Len(name) : name[i] = slash

\* the payload of the last WriteFile
Payload == op.args

\* C23: WriteFile of an object-shaped or array-shaped payload, and WriteFile
\* to a name with a path separator in it, return an error and change nothing
C23_WriteFileRejects ==
    Called("WriteFile") /\ (ObjectOrArrayShaped(Payload) \/ HasSeparator(op.name)) =>
      op.err # NoErr /\ root = op.before

\* C23 for the names that path.Clean leaves with a directory part: rejected,
\* nothing changed
C23_PathRejected ==
    Called("WriteFile") /\ PathSplit(PathClean(op.name)).dir # <<>> =>
      op.err # NoErr /\ root = op.before

\* as the code has it: a payload that is not empty, written to a name that
\* cleans to a bare name, is always stored, an object or array as a String
C23_ShapedStored ==
    (/\ Called("WriteFile")
     /\ ObjectOrArrayShaped(Payload)
     /\ PathSplit(PathClean(op.name)).dir = <<>>) =>
      /\ op.err = NoErr
      /\ After.objs[PathClean(op.name)].Type = OTFile
      /\ After.objs[PathClean(op.name)].File.t = FTString
      /\ After.objs[PathClean(op.name)].File.value = Payload

\* an object has been stored as a File
C23_ObjectStored ==
    /\ Called("WriteFile")
    /\ Payload = <<openBrace, closeBrace>>
    /\ op.err = NoErr
    /\ op.name = <<"a">>

\* a name that ends with a separator has been written to
C23_SeparatorAccepted ==
    /\ Called("WriteFile")
    /\ op.name = <<"a", "/">>
    /\ Payload = <<"1">>
    /\ op.err = NoErr

-----------------------------------------------------------------------------
(* The type detector of WriteFile, under SpecScalar.                        *)

\* b is made of digits and of "." only, and begins with a digit
NumberShaped(b) ==
    /\ b # <<>>
    /\ IsNumber(b[1])
    /\ \A i \in 1..Len(b) : IsNumber(b[i]) \/ b[i] = dot

\* the kind of the literal b: what the decoder makes of it
Classify(b) ==
    IF NumberShaped(b) /\ Count(b, dot) = 0 THEN FTInt
    ELSE IF NumberShaped(b) /\ Count(b, dot) = 1 THEN FTFloat
    ELSE IF b \in {<<"t", "r", "u", "e">>, <<"f", "a", "l", "s", "e">>} THEN FTBool
    ELSE IF b = <<"n", "u", "l", "l">> THEN FTNull
    ELSE FTString

\* DataType has been applied to a payload that is not empty
Detected == scalarOut.fn = "DataType" /\ frag # <<>>

\* C24: DataType gives a payload the kind the decoder gives the literal:
\* digits, however many, are Int; digits with exactly one "." are Float;
\* true and false are Bool; null is Null; anything else is String
C24_DataTypeClassifies ==
    Detected => scalarOut.err = NoErr /\ scalarOut.t = Classify(frag)

\* as the code has it: a number is seen only in one digit, with or without
\* one "." after it; more digits make a String
C24_OneDigitOnly ==
    Detected =>
      /\ scalarOut.err = NoErr
      /\ scalarOut.t = FTInt <=> (Len(frag) = 1 /\ IsNumber(frag[1]))
      /\ scalarOut.t = FTFloat <=> (Len(frag) = 2 /\ IsNumber(frag[1]) /\ frag[2] = dot)
      /\ scalarOut.t \in {FTBool, FTNull} <=> Classify(frag) \in {FTBool, FTNull}
      /\ scalarOut.t \in {FTBool, FTNull} => scalarOut.t = Classify(frag)

\* DataType has been applied to a payload of two digits
C24_TwoDigits == Detected /\ frag = <<"1", "1">>

\* DataType has been applied to a number with a fraction
C24_Fraction == Detected /\ frag = <<"1", ".", "1">>

\* DataType has been applied to a keyword
C24_Keyword == Detected /\ frag = <<"n", "u", "l", "l">> /\ scalarOut.t = FTNull

-----------------------------------------------------------------------------
(* Append and ArraySet.                                                     *)

\* the child of d at index is the value x, carrying the index as its name
HoldsAt(d, index, x) ==
    /\ index \in DOMAIN d.objs
    /\ LET o == d.objs[index] IN
         CASE x.type = "File" -> o = FileObject([x.File EXCEPT !.name = index])
           [] x.type = "Directory" -> o = DirObject([x.Dir EXCEPT !.name = index])
           [] OTHER -> /\ o.Type = OTFile
                       /\ o.File.t = FTNull
                       /\ o.File.value = <<"n", "u", "l", "l">>
                       /\ o.File.name = index

\* the values args are the children of d from index n on, in order, and the
\* children of b are untouched
Appended(b, d, args) ==
    LET n == DirectoryLen(b) IN
    /\ DirectoryLen(d) = n + Len(args)
    /\ \A k \in DOMAIN b.objs : k \in DOMAIN d.objs /\ d.objs[k] = b.objs[k]
    /\ \A i \in 1..Len(args) : HoldsAt(d, Itoa(n + i - 1), args[i])

\* C25: Append of k values to an array of length n returns nil, leaves the n
\* children as they were and adds the values as children n..n+k-1 in
\* argument order, each named by its index, so that Len() is n+k; Append to a
\* Directory that is no array returns an error and changes nothing
C25_AppendAdds ==
    Called("Append") =>
      IF Before.isArray
      THEN /\ op.err = NoErr
           /\ Appended(Before, After, op.args)
           /\ root = PutAt(op.before, op.path, After)
      ELSE op.err # NoErr /\ root = op.before

\* C25 for Files and Directories appended to an array whose children are
\* "0".."n-1", and for the refusal on a Directory that is no array
C25_NamedValues ==
    Called("Append") =>
      IF Before.isArray
      THEN (Contiguous(Before) /\ \A i \in 1..Len(op.args) : op.args[i].type # "nil") =>
             /\ op.err = NoErr
             /\ Appended(Before, After, op.args)
             /\ root = PutAt(op.before, op.path, After)
      ELSE op.err # NoErr /\ root = op.before

\* a nil has been appended to a decoded array: the Null File has no name
C25_NamelessNull ==
    /\ Called("Append")
    /\ Before.isArray
    /\ Contiguous(Before)
    /\ ~root.isArray
    /\ op.args = <<NilArg>>
    /\ After.objs[Itoa(DirectoryLen(Before))].File.name = <<>>

\* an Append after a Remove has replaced a child
C25_Overwritten ==
    /\ Called("Append")
    /\ Before.isArray
    /\ ~Contiguous(Before)
    /\ \E k \in DOMAIN Before.objs : After.objs[k] # Before.objs[k]

\* a File has been appended to a decoded array of two
C25_FileAppended ==
    /\ Called("Append")
    /\ Before.isArray
    /\ ~root.isArray
    /\ DirectoryLen(Before) = 2
    /\ op.args[1].type = "File"
    /\ After.objs[<<"2">>].File.name = <<"2">>

\* the child of d under the key of index is the value x, a nil x as a Null
\* File
ReplacedAt(d, index, x) ==
    /\ FormatInt(index) \in DOMAIN d.objs
    /\ LET o == d.objs[FormatInt(index)] IN
         CASE x.type = "File" -> o = FileObject(x.File)
           [] x.type = "Directory" -> o = DirObject(x.Dir)
           [] OTHER -> o.Type = OTFile /\ o.File.t = FTNull
                       /\ o.File.value = <<"n", "u", "l", "l">>

\* ArraySet has just returned from a call on an array
SetInArray == Called("ArraySet") /\ Before.isArray

\* C26: ArraySet on an array returns nil only when the child at index is now
\* the value given, the other children being as before; for an index outside
\* 0..Len()-1, a negative one included, it returns an error and changes
\* nothing
C26_ArraySetBounds ==
    SetInArray =>
      IF op.index \in 0..(DirectoryLen(Before) - 1)
      THEN op.err = NoErr =>
             /\ ReplacedAt(After, op.index, op.args[1])
             /\ \A k \in DOMAIN Before.objs \ {FormatInt(op.index)} :
                  k \in DOMAIN After.objs /\ After.objs[k] = Before.objs[k]
             /\ DirectoryLen(After) = DirectoryLen(Before)
      ELSE op.err # NoErr /\ root = op.before

\* C26 without the negative indices, on arrays whose children are "0".."n-1"
C26_FromZero ==
    SetInArray /\ op.index >= 0 /\ Contiguous(Before) =>
      IF op.index < DirectoryLen(Before)
      THEN /\ op.err = NoErr
           /\ ReplacedAt(After, op.index, op.args[1])
           /\ \A k \in DOMAIN Before.objs \ {FormatInt(op.index)} :
                k \in DOMAIN After.objs /\ After.objs[k] = Before.objs[k]
           /\ DirectoryLen(After) = DirectoryLen(Before)
      ELSE op.err = "index is out of bounds" /\ root = op.before

\* ArraySet at index -1 of a decoded array has returned nil with nothing set
C26_NegativeNil ==
    /\ SetInArray
    /\ ~root.isArray
    /\ op.index < 0
    /\ op.err = NoErr
    /\ root = op.before

\* ArraySet has put a nil into a decoded array
C26_NullSet ==
    /\ SetInArray
    /\ ~root.isArray
    /\ op.index = 1
    /\ op.args[1].type = "nil"
    /\ op.err = NoErr
    /\ After # Before


-----------------------------------------------------------------------------
(* Listing, lookup and encoding of the tree a program holds.  These calls   *)
(* leave the tree as it is; what they return is kept in op.args.            *)

\* the characters of names, in the order of their bytes
ByteOrder ==
    <<"\"", "-", ".", "/", "0", "1", "2", "3", "4", "5", "6", "7", "8", "9",
      "\\", "a", "b", "c", "d", "e", "f", "g", "h", "i", "j", "k", "l", "m",
      "n", "o", "p", "q", "r", "s", "t", "u", "v", "w", "x", "y", "z">>

ByteOf(c) == CHOOSE i \in 1..Len(ByteOrder) : ByteOrder[i] = c

RECURSIVE StringLess(_, _)
\* a < b on two Go strings
StringLess(a, b) ==
    IF b = <<>> THEN FALSE
    ELSE IF a = <<>> THEN TRUE
    ELSE IF Head(a) # Head(b) THEN ByteOf(Head(a)) < ByteOf(Head(b))
    ELSE StringLess(Tail(a), Tail(b))

\* the keys the range loop of ReadDir collects: every child of a File or
\* Directory type when n <= 0 or no more than n exist, else the first n of
\* the visiting order, which may be any n of them
ReadDirRange(d, n) ==
    LET all == {k \in DOMAIN d.objs : d.objs[k].Type \in {OTFile, OTDir}} IN
    IF n > 0 /\ n < Cardinality(all)
    THEN {ks \in SUBSET all : Cardinality(ks) = n}
    ELSE {all}

RECURSIVE SortSlice(_, _)
\* sort.Slice(de, less) with less comparing Name(), on the entries under the
\* keys ks: the sort is not stable, so entries of one name end in any order
SortSlice(d, ks) ==
    IF ks = {} THEN {<<>>}
    ELSE LET first == {k \in ks : \A x \in ks :
                          ~StringLess(ObjectName(d.objs[x]), ObjectName(d.objs[k]))}
         IN  UNION {{<<d.objs[k]>> \o s : s \in SortSlice(d, ks \ {k})} : k \in first}

\* d.ReadDir(n): the [entries, err] that some visiting order of the map gives
ReadDir(d, n) ==
    UNION {IF ks = {} /\ n > 0 THEN {[entries |-> <<>>, err |-> "EOF"]}
           ELSE {[entries |-> s, err |-> NoErr] : s \in SortSlice(d, ks)} :
             ks \in ReadDirRange(d, n)}

\* the limits ReadDir is called with
Limits == {0, 1, 2}

\* another call that leaves the tree as it is may be made: one more of them
\* than of the calls that change it
MayRead == Holding /\ op.n <= MaxCalls

\* a call on the Directory at path that leaves the tree as it is and returns
\* ret and err
TreeRead(fn, path, name, index, ret, err) ==
    TreeStep(fn, path, name, ret, index, DirErr(DirAt(root, path), err))

\* d.ReadDir(n)
treeReadDir ==
    /\ MayRead
    /\ \E path \in TreePaths, n \in Limits :
         \E r \in ReadDir(DirAt(root, path), n) :
           TreeRead("ReadDir", path, <<>>, n, r.entries, r.err)
    /\ UNCHANGED now


\* the paths GetDir and GetFile are called with
LookupNames ==
    {<<>>, <<dot>>, <<"a">>, <<"b">>, <<"z">>,
     <<"b", "/", "0">>, <<"b", "/", "1">>, <<"b", "/", "b">>,
     <<"a", "/", "b">>, <<"z", "/", "b">>, <<"b", "/", "1", "/", "0">>,
     <<"/">>, <<"b", "/", dot, dot>>}

\* d.GetDir(name)
treeGetDir ==
    /\ MayRead
    /\ \E path \in TreePaths, name \in LookupNames :
         LET r == GetDir(DirAt(root, path), name) IN
         TreeRead("GetDir", path, name, 0, r.dir, r.err)
    /\ UNCHANGED now

\* d.GetFile(name)
treeGetFile ==
    /\ MayRead
    /\ \E path \in TreePaths, name \in LookupNames :
         LET r == GetFile(DirAt(root, path), name) IN
         TreeRead("GetFile", path, name, 0, r.file, r.err)
    /\ UNCHANGED now

\* d.EncodeJSON(w) into an empty buffer w
treeEncodeJSON ==
    /\ MayRead
    /\ \E path \in TreePaths :
         \E e \in EncodeJSON(DirAt(root, path)) :
           TreeRead("EncodeJSON", path, <<>>, 0, e.out, e.err)
    /\ UNCHANGED now

\* MarshalJSON(w, d) into an empty buffer w
treeMarshalJSON ==
    /\ MayRead
    /\ \E path \in TreePaths :
         \E e \in MarshalJSON(DirAt(root, path)) :
           TreeRead("MarshalJSON", path, <<>>, 0, e.out, e.err)
    /\ UNCHANGED now

NextRead ==
    \/ runSM
    \/ UnmarshalJSONReturn
    \/ treeHold
    \/ treeAppend
    \/ treeArraySet
    \/ treeReadDir
    \/ treeGetDir
    \/ treeGetFile
    \/ treeEncodeJSON
    \/ treeMarshalJSON

SpecRead == InitTree /\ [][NextRead]_vars


-----------------------------------------------------------------------------
(* C27.  Listing a Directory.                                               *)

\* the entries es are the children of d, each exactly once
EachChildOnce(d, es) ==
    /\ Len(es) = Cardinality(DOMAIN d.objs)
    /\ \A k \in DOMAIN d.objs :
         Cardinality({i \in 1..Len(es) : es[i] = d.objs[k]})
           = Cardinality({x \in DOMAIN d.objs : d.objs[x] = d.objs[k]})

\* the names of the entries es ascend strictly
StrictlyAscending(es) ==
    \A i \in 1..(Len(es) - 1) : StringLess(ObjectName(es[i]), ObjectName(es[i + 1]))

\* the names of the entries es ascend
Ascending(es) ==
    \A i \in 1..(Len(es) - 1) : ~StringLess(ObjectName(es[i + 1]), ObjectName(es[i]))

\* what the claim requires of the entries es and the error err that
\* d.ReadDir(n) returned
Listed(d, n, es, err) ==
    IF n = 0
    THEN err = NoErr /\ EachChildOnce(d, es) /\ StrictlyAscending(es)
    ELSE /\ Len(es) = (IF n < DirectoryLen(d) THEN n ELSE DirectoryLen(d))
         /\ \A i \in 1..Len(es) : \E k \in DOMAIN d.objs : es[i] = d.objs[k]
         /\ Ascending(es)
         /\ err \in {NoErr, "EOF"}
         /\ err = "EOF" => Len(es) = 0

\* C27: ReadDir(0) returns every child of the Directory exactly once, in
\* strictly ascending lexicographic order of name; ReadDir(n) with n > 0
\* returns min(n, Len()) entries in ascending order and returns io.EOF only
\* when it has no entries to return.
C27_ReadDirLists ==
    Called("ReadDir") => Listed(After, op.index, op.args, op.err)

\* every child of d is stored under its own name
NamedAsStored(d) == \A k \in DOMAIN d.objs : ObjectName(d.objs[k]) = k

\* C27 for a Directory whose children are stored under their own names
C27_NamedAsStored ==
    Called("ReadDir") /\ NamedAsStored(After) =>
      Listed(After, op.index, op.args, op.err)

\* ArraySet has put two Files of one name into an array and ReadDir(0)
\* returns them in an order that is not strictly ascending
C27_SameNameTwice ==
    /\ Called("ReadDir")
    /\ op.index = 0
    /\ op.err = NoErr
    /\ \E i \in 1..(Len(op.args) - 1) : ObjectName(op.args[i]) = ObjectName(op.args[i + 1])

\* ReadDir(1) of an empty Directory returns io.EOF
C27_Exhausted ==
    /\ Called("ReadDir")
    /\ NamedAsStored(After)
    /\ op.index = 1
    /\ op.err = "EOF"

\* ReadDir(0) lists the two children of a decoded Directory
C27_TwoListed ==
    /\ Called("ReadDir")
    /\ NamedAsStored(After)
    /\ op.index = 0
    /\ Len(op.args) = 2


-----------------------------------------------------------------------------
(* C28.  Listing twice.                                                     *)

\* this step is a ReadDir on the Directory that the call before it listed,
\* with the same limit
ReadDirAgain ==
    /\ Called("ReadDir")
    /\ op'.fn = "ReadDir"
    /\ op'.path = op.path
    /\ op'.index = op.index
    /\ root' = root

\* the step returns what the call before it returned
SameListing == op'.args = op.args /\ op'.err = op.err

\* C28: listing is restartable and deterministic: two ReadDir calls with the
\* same limit, with no mutation of the Directory in between, return the same
\* sequence of entries, for limit 0 and for every limit > 0 smaller than the
\* number of children.
C28_ListingDeterministic ==
    [][ReadDirAgain /\ (op.index = 0 \/ op.index < DirectoryLen(After))
          => SameListing]_vars

\* C28 for limit 0, and for limits that are no smaller than the number of
\* children, on a Directory whose children are stored under their own names
C28_FullListing ==
    [][ReadDirAgain /\ NamedAsStored(After)
         /\ (op.index = 0 \/ op.index >= DirectoryLen(After))
          => SameListing]_vars

\* ReadDir(1) has returned one of the two children of a decoded Directory
C28_OneOfTwo ==
    /\ Called("ReadDir")
    /\ NamedAsStored(After)
    /\ op.index = 1
    /\ DirectoryLen(After) = 2
    /\ op.err = NoErr


-----------------------------------------------------------------------------
(* C29.  Lookup by path.                                                    *)

\* the components of name are names of children: none is empty, "." or ".."
PlainPath(name) ==
    \A i \in 1..Len(Split(name)) : Split(name)[i] \notin {<<>>, <<dot>>, <<dot, dot>>}

RECURSIVE Follow(_, _)
\* following the components comps from the Directory d, child by child:
\* [found, obj], not found when a component is missing or a File is to be
\* entered
Follow(d, comps) ==
    IF Head(comps) \notin DOMAIN d.objs THEN [found |-> FALSE, obj |-> DirObject(ZeroDir)]
    ELSE LET o == d.objs[Head(comps)] IN
         IF Len(comps) = 1 THEN [found |-> TRUE, obj |-> o]
         ELSE IF o.Type # OTDir THEN [found |-> FALSE, obj |-> o]
         ELSE Follow(o.Dir, Tail(comps))

\* the path of the last call denotes its receiver
SelfPath == op.name \in {<<>>, <<dot>>}

\* C29: GetDir(path) returns the Directory reached by following each
\* /-separated component from the receiver, returning the receiver itself
\* for an empty path or "."; it fails when a component is missing or when
\* any component, intermediate or final, is a File.  GetFile(path) returns
\* the File at the path and fails when the final component is missing or is
\* a Directory.  Neither changes the tree.
C29_Lookup ==
    /\ Called("GetDir") /\ SelfPath => op.err = NoErr /\ op.args = After
    /\ Called("GetDir") /\ ~SelfPath /\ PlainPath(op.name) =>
         LET f == Follow(After, Split(op.name)) IN
         IF f.found /\ f.obj.Type = OTDir
         THEN op.err = NoErr /\ op.args = f.obj.Dir
         ELSE op.err # NoErr
    /\ Called("GetFile") /\ SelfPath => op.err # NoErr
    /\ Called("GetFile") /\ ~SelfPath /\ PlainPath(op.name) =>
         LET f == Follow(After, Split(op.name)) IN
         IF f.found /\ f.obj.Type = OTFile
         THEN op.err = NoErr /\ op.args = f.obj.File
         ELSE op.err # NoErr
    /\ Called("GetDir") \/ Called("GetFile") => root = op.before

\* GetDir("b/1") from the root returns the Directory that is element 1 of b
C29_Witness ==
    /\ Called("GetDir")
    /\ op.path = <<>>
    /\ op.name = <<"b", "/", "1">>
    /\ op.err = NoErr
    /\ op.args = root.objs[<<"b">>].Dir.objs[<<"1">>].Dir

\* GetDir fails on a File as the final and as an intermediate component
C29_WitnessFile ==
    /\ Called("GetDir")
    /\ op.path = <<>>
    /\ op.err # NoErr
    /\ \/ op.name = <<"a">> /\ <<"a">> \in DOMAIN root.objs
       \/ op.name = <<"b", "/", "0">> /\ IsDirPath(root, <<<<"b">>>>)
                                     /\ <<"0">> \in DOMAIN root.objs[<<"b">>].Dir.objs

\* GetFile("b/0") from the root returns element 0 of b
C29_WitnessGetFile ==
    /\ Called("GetFile")
    /\ op.path = <<>>
    /\ op.name = <<"b", "/", "0">>
    /\ op.err = NoErr
    /\ op.args = root.objs[<<"b">>].Dir.objs[<<"0">>].File

\* GetFile fails on a Directory as the final component
C29_WitnessDirectory ==
    /\ Called("GetFile")
    /\ op.path = <<>>
    /\ op.name = <<"b">>
    /\ <<"b">> \in DOMAIN root.objs
    /\ op.err # NoErr

\* GetDir("") returns the receiver
C29_WitnessSelf ==
    /\ Called("GetDir")
    /\ op.name = <<>>
    /\ op.err = NoErr
    /\ op.args = After


-----------------------------------------------------------------------------
(* C30.  The top-level document.                                            *)

\* the last call encoded the Directory it was made on
Encoded == Called("EncodeJSON") \/ Called("MarshalJSON")

NotTopLevel == "must encode from a Directory that is not an array"

\* C30: EncodeJSON and MarshalJSON called on an array-flagged Directory
\* return an error and write no JSON bytes; only a non-array Directory is
\* accepted as the top-level document, and it is written as a JSON object.
C30_ArrayNotTopLevel ==
    Encoded =>
      IF After.isArray
      THEN op.err = NotTopLevel /\ op.args = <<>>
      ELSE /\ op.err # NotTopLevel
           /\ op.err = NoErr => Head(op.args) = openBrace /\ op.args[Len(op.args)] = closeBrace

\* MarshalJSON of a decoded array that has children returned the error and
\* wrote nothing
C30_Witness ==
    /\ Called("MarshalJSON")
    /\ After.isArray
    /\ DirectoryLen(After) > 0
    /\ op.err = NotTopLevel
    /\ op.args = <<>>

\* EncodeJSON of an array-flagged Directory returned the error
C30_WitnessEncodeJSON ==
    /\ Called("EncodeJSON")
    /\ After.isArray
    /\ op.err = NotTopLevel

\* a Directory that is no array was written as a document
C30_WitnessAccepted ==
    /\ Encoded
    /\ ~After.isArray
    /\ DirectoryLen(After) > 0
    /\ op.err = NoErr


-----------------------------------------------------------------------------
(* CP.  The Directory CP returns is kept in cp, next to the Directory it    *)
(* was made from; the program then calls either of the two.                 *)

\* CP(fileOrDir) on a Directory.  The type switch binds x to a copy of the
\* struct: the new map and the new lock are assigned to x.objs and x.mu, the
\* range over x.objs visits the new, empty map, and x is dropped.  What is
\* returned is fileOrDir, whose objs field is the map of the argument.
CP(d) == [made |-> TRUE, shared |-> TRUE, dir |-> d]

\* the Directory the program reaches through what CP returned
CopyDir == IF cp.shared THEN [cp.dir EXCEPT !.objs = root.objs] ELSE cp.dir

\* the directories calls are made on through the copy
CopyPaths ==
    {<<>>} \cup {<<n>> : n \in {k \in DOMAIN CopyDir.objs : CopyDir.objs[k].Type = OTDir}}

\* c := CP(root)
treeCP ==
    /\ MayCall
    /\ ~cp.made
    /\ cp' = CP(root)
    /\ root' = root
    /\ op' = TreeCall("CP", <<>>, <<>>, <<>>, 0, NoErr, root, op.n + 1)
    /\ UNCHANGED <<input, goVars, src, pos, stack, now, pc, results, file, frag, scalarOut, streamVars>>

\* a call on the Directory at path below the copy that leaves it as r.dir and
\* returns r.err: a map the copy shares with root is changed for both
CopyStep(fn, path, name, args, r) ==
    /\ IF cp.shared
       THEN root' = PutAt(root, path, r.dir) /\ cp' = cp
       ELSE root' = root /\ cp' = [cp EXCEPT !.dir = PutAt(cp.dir, path, r.dir)]
    /\ op' = TreeCall(fn, path, name, args, 0, r.err, root, op.n + 1)
    /\ now' = now + 1
    /\ UNCHANGED <<input, goVars, src, pos, stack, pc, results, file, frag, scalarOut, streamVars>>


\* the calls made through the copy
CopyCalls == {"CP.Set", "CP.WriteFile", "CP.Remove", "CP.Append"}

\* c.Set(filesOrDirs...)
copySet ==
    /\ MayCall
    /\ cp.made
    /\ \E path \in CopyPaths, args \in {<<FileArg(FileB(now))>>, <<DirArg(DirA(now))>>} :
         CopyStep("CP.Set", path, <<>>, args, Set(DirAt(CopyDir, path), args))

\* c.WriteFile(name, data)
copyWriteFile ==
    /\ MayCall
    /\ cp.made
    /\ \E path \in CopyPaths, name \in {<<"a">>, <<"z">>} :
         CopyStep("CP.WriteFile", path, name, <<"1">>,
                  WriteFile(DirAt(CopyDir, path), name, <<"1">>, now))

\* c.Remove(name)
copyRemove ==
    /\ MayCall
    /\ cp.made
    /\ \E path \in CopyPaths :
         \E name \in RemoveNames(DirAt(CopyDir, path)) :
           CopyStep("CP.Remove", path, name, <<>>, Remove(DirAt(CopyDir, path), name))

\* Append(c, filesOrDirs...)
copyAppend ==
    /\ MayCall
    /\ cp.made
    /\ \E path \in CopyPaths, args \in AppendArgs(now) :
         CopyStep("CP.Append", path, <<>>, args,
                  DirectoryAppend(DirAt(CopyDir, path), args))

NextCopy ==
    \/ runSM
    \/ UnmarshalJSONReturn
    \/ treeHold
    \/ treeCP
    \/ treeSet
    \/ treeWriteFile
    \/ treeRemove
    \/ treeAppend
    \/ copySet
    \/ copyWriteFile
    \/ copyRemove
    \/ copyAppend

SpecCopy == InitTree /\ [][NextCopy]_vars

-----------------------------------------------------------------------------
(* C31.  Copies.                                                            *)

\* the calls made on the Directory the copy was made from
OriginalCalls == {"Set", "WriteFile", "Remove", "Append"}

\* the copy has the children of the Directory it was just made from
SameChildren == Called("CP") => cp.made /\ CopyDir.objs = root.objs

\* a step that is a call through the copy leaves the original as it was, and
\* a step that is a call on the original leaves the copy as it was
Independent ==
    cp.made /\ cp'.made =>
      /\ op'.fn \in CopyCalls => root' = root
      /\ op'.fn \in OriginalCalls => CopyDir' = CopyDir

\* C31: CP(d) returns a copy of Directory d that has the same children as d
\* and shares no mutable state with it: any later Set, WriteFile, Remove or
\* Append on the copy leaves d unchanged, and any such operation on d leaves
\* the copy unchanged.
C31_CopyIndependent == [](SameChildren) /\ [][Independent]_vars

\* C31, the children of the copy alone
C31_SameChildren == SameChildren

\* a Set through the copy has put a child into the Directory it was made from
C31_OriginalChanged ==
    /\ pc = "tree"
    /\ cp.made
    /\ op.fn = "CP.Set"
    /\ op.path = <<>>
    /\ op.err = NoErr
    /\ root # op.before

\* a WriteFile on the original after CP shows through the copy
C31_CopyChanged ==
    /\ pc = "tree"
    /\ cp.made
    /\ op.fn = "WriteFile"
    /\ op.err = NoErr
    /\ root # op.before
    /\ CopyDir.objs = root.objs


-----------------------------------------------------------------------------
(* Goroutines that call one Directory whose mu is set.  Each makes one call;*)
(* gs[g] is the call and how far it has come.  An update of the map is not  *)
(* atomic: it begins and it ends.                                           *)

Goroutines == {1, 2}

\* the calls that take d.mu.RLock() and defer d.mu.RUnlock()
RLocking == {"WriteFile", "Remove", "RemoveAll", "GetDir", "GetFile", "ReadDir", "Len"}

\* the calls that assign to or delete from a map of children
Mutating == {"WriteFile", "Remove", "RemoveAll", "Set", "Append", "ArraySet"}

Go(fn, at) == [fn |-> fn, at |-> at]

InitLock ==
    /\ input = NoInput
    /\ src = <<>>
    /\ pos = 1
    /\ stack = <<>>
    /\ now = 1
    /\ pc = "go"
    /\ results = <<>>
    /\ file = NoFile
    /\ frag = <<>>
    /\ scalarOut = NoOut
    /\ NoStream
    /\ root = ZeroDir
    /\ op = NoOp
    /\ cp = NoCopy
    /\ mu = RWMutex(0, FALSE)
    /\ gs = [g \in Goroutines |-> Go("none", "idle")]
    /\ pool = NoPools
    /\ sm = [dict |-> 0, array |-> 0]

\* goroutine g comes to position at, the lock becoming m
GoStep(g, fn, at, m) ==
    /\ gs' = [gs EXCEPT ![g] = Go(fn, at)]
    /\ mu' = m
    /\ pool' = pool
    /\ UNCHANGED <<input, sm, src, pos, stack, now, pc, results, file, frag, scalarOut,
                   streamVars, treeVars>>

\* a goroutine calls a method of the Directory, or Append or ArraySet on it
goCall ==
    /\ pc = "go"
    /\ \E g \in Goroutines, fn \in RLocking \cup Mutating :
         /\ gs[g].at = "idle"
         /\ GoStep(g, fn, "called", mu)

\* d.mu.RLock(): granted unless the write lock is held
goRLock ==
    /\ pc = "go"
    /\ ~mu.writer
    /\ \E g \in Goroutines :
         /\ gs[g].at = "called"
         /\ gs[g].fn \in RLocking
         /\ GoStep(g, gs[g].fn, "locked", RWMutex(mu.readers + 1, mu.writer))

\* the call starts to assign to the map or to delete from it: WriteFile and
\* remove inside their read-locked section, Set, Append and ArraySet, which
\* take no lock, at once
goUpdate ==
    /\ pc = "go"
    /\ \E g \in Goroutines :
         /\ gs[g].fn \in Mutating
         /\ gs[g].at = (IF gs[g].fn \in RLocking THEN "locked" ELSE "called")
         /\ GoStep(g, gs[g].fn, "updating", mu)

\* the assignment or delete is done
goUpdated ==
    /\ pc = "go"
    /\ \E g \in Goroutines :
         /\ gs[g].at = "updating"
         /\ GoStep(g, gs[g].fn, "updated", mu)

\* the deferred d.mu.RUnlock() on return: after the update, after the read,
\* or on an early return with an error
goRUnlock ==
    /\ pc = "go"
    /\ \E g \in Goroutines :
         /\ gs[g].fn \in RLocking
         /\ gs[g].at \in {"locked", "updated"}
         /\ GoStep(g, gs[g].fn, "returned", RWMutex(mu.readers - 1, mu.writer))

\* Set, Append or ArraySet returns: after the update or early with an error
goReturn ==
    /\ pc = "go"
    /\ \E g \in Goroutines :
         /\ gs[g].fn \in Mutating \ RLocking
         /\ gs[g].at \in {"called", "updated"}
         /\ GoStep(g, gs[g].fn, "returned", mu)

NextLock == goCall \/ goRLock \/ goUpdate \/ goUpdated \/ goRUnlock \/ goReturn

SpecLock == InitLock /\ [][NextLock]_vars

-----------------------------------------------------------------------------
(* C32.  Exclusive mutation.                                                *)

\* goroutine g is updating the children map
Updating(g) == gs[g].at = "updating"

\* goroutine g is inside the locked section of a read operation
Reading(g) == gs[g].fn \in RLocking \ Mutating /\ gs[g].at = "locked"

C32_ReadLocksCounted ==
    pc = "go" =>
      /\ ~mu.writer
      /\ mu.readers = Cardinality({g \in Goroutines :
                                     /\ gs[g].fn \in RLocking
                                     /\ gs[g].at \in {"locked", "updating", "updated"}})

\* two WriteFile calls, both holding the read lock, update the map at once
C32_TwoWriters ==
    /\ pc = "go"
    /\ mu.readers = 2
    /\ \A g \in Goroutines : gs[g].fn = "WriteFile" /\ Updating(g)

\* Set, which takes no lock, updates the map while ReadDir holds the read lock
C32_SetDuringRead ==
    /\ pc = "go"
    /\ \E g, h \in Goroutines :
         /\ gs[g].fn = "Set" /\ Updating(g)
         /\ gs[h].fn = "ReadDir" /\ Reading(h)


-----------------------------------------------------------------------------
(* The buffer pools.  Goroutines call UnmarshalJSON, UnmarshalStream and    *)
(* MarshalJSON, each with a plain io.Reader or io.Writer or with a          *)
(* *bufio.Reader or *bufio.Writer of its own.  gs[g] is the call, the       *)
(* argument, the position, the buffer b in use and the documents read.      *)

\* the *bufio.Readers and *bufio.Writers that New of the two pools can return
ReaderBufs == {"r1", "r2"}

WriterBufs == {"w1", "w2"}

PoolBufs == ReaderBufs \cup WriterBufs

\* the *bufio.Reader or *bufio.Writer that goroutine g made itself
Own(g) == IF g = 1 THEN "own1" ELSE "own2"

Use(fn, arg, at, b, n) == [fn |-> fn, arg |-> arg, at |-> at, b |-> b, n |-> n]

InitPool ==
    /\ input = NoInput
    /\ src = <<>>
    /\ pos = 1
    /\ stack = <<>>
    /\ now = 1
    /\ pc = "pool"
    /\ results = <<>>
    /\ file = NoFile
    /\ frag = <<>>
    /\ scalarOut = NoOut
    /\ NoStream
    /\ root = ZeroDir
    /\ op = NoOp
    /\ cp = NoCopy
    /\ mu = RWMutex(0, FALSE)
    /\ gs = [g \in Goroutines |-> Use("none", "none", "idle", "none", 0)]
    /\ pool = NoPools
    /\ sm = [dict |-> 0, array |-> 0]

\* goroutine g comes to u, the pools becoming p
PoolStep(g, u, p) ==
    /\ gs' = [gs EXCEPT ![g] = u]
    /\ pool' = p
    /\ mu' = mu
    /\ UNCHANGED <<input, sm, src, pos, stack, now, pc, results, file, frag, scalarOut,
                   streamVars, treeVars>>

\* the buffers some call holds
Held == {gs[g].b : g \in Goroutines}

\* what Get() on a sync.Pool holding the buffers avail can return: one of
\* them, or a new buffer from New, which is one of all
PoolGet(avail, all) == avail \cup (all \ (avail \cup Held))

\* a goroutine calls one of the three functions
poolCall ==
    /\ pc = "pool"
    /\ \E g \in Goroutines, fn \in {"UnmarshalJSON", "UnmarshalStream", "MarshalJSON"},
          arg \in {"plain", "bufio"} :
         /\ gs[g].at = "idle"
         /\ PoolStep(g, Use(fn, arg, "called", "none", 0), pool)

\* the head of UnmarshalJSON and UnmarshalStream: b is r when r is a
\* *bufio.Reader, else readerPool.Get() reset to r
poolGetReader ==
    /\ pc = "pool"
    /\ \E g \in Goroutines :
         /\ gs[g].at = "called"
         /\ gs[g].fn \in {"UnmarshalJSON", "UnmarshalStream"}
         /\ LET at == IF gs[g].fn = "UnmarshalStream" THEN "loop" ELSE "using" IN
            IF gs[g].arg = "bufio"
            THEN PoolStep(g, [gs[g] EXCEPT !.at = at, !.b = Own(g)], pool)
            ELSE \E b \in PoolGet(pool.readers, ReaderBufs) :
                   PoolStep(g, [gs[g] EXCEPT !.at = at, !.b = b],
                            [pool EXCEPT !.readers = @ \ {b}])

\* the head of MarshalJSON: b is w when w is a *bufio.Writer, else
\* writerPool.Get() reset to w
poolGetWriter ==
    /\ pc = "pool"
    /\ \E g \in Goroutines :
         /\ gs[g].at = "called"
         /\ gs[g].fn = "MarshalJSON"
         /\ IF gs[g].arg = "bufio"
            THEN PoolStep(g, [gs[g] EXCEPT !.at = "using", !.b = Own(g)], pool)
            ELSE \E b \in PoolGet(pool.writers, WriterBufs) :
                   PoolStep(g, [gs[g] EXCEPT !.at = "using", !.b = b],
                            [pool EXCEPT !.writers = @ \ {b}])

\* the goroutine of UnmarshalStream calls UnmarshalJSON(b): b is a
\* *bufio.Reader, so the call reads from b itself
poolStreamCall ==
    /\ pc = "pool"
    /\ \E g \in Goroutines :
         /\ gs[g].fn = "UnmarshalStream"
         /\ gs[g].at = "loop"
         /\ gs[g].n < MaxDocs
         /\ PoolStep(g, [gs[g] EXCEPT !.at = "using"], pool)

\* UnmarshalJSON returns: the deferred readerPool.Put(b).  Inside a stream the
\* goroutine is back in its loop with one more document read
poolPutReader ==
    /\ pc = "pool"
    /\ \E g \in Goroutines :
         /\ gs[g].fn \in {"UnmarshalJSON", "UnmarshalStream"}
         /\ gs[g].at = "using"
         /\ PoolStep(g, [gs[g] EXCEPT !.at = IF gs[g].fn = "UnmarshalStream"
                                              THEN "loop" ELSE "returned",
                                      !.n = @ + 1],
                     [pool EXCEPT !.readers = @ \cup {gs[g].b}])

\* MarshalJSON returns: the deferred writerPool.Put(b)
poolPutWriter ==
    /\ pc = "pool"
    /\ \E g \in Goroutines :
         /\ gs[g].fn = "MarshalJSON"
         /\ gs[g].at = "using"
         /\ PoolStep(g, [gs[g] EXCEPT !.at = "returned"],
                     [pool EXCEPT !.writers = @ \cup {gs[g].b}])

\* the goroutine of UnmarshalStream returns after an error or an empty
\* object and closes the channel
poolStreamEnd ==
    /\ pc = "pool"
    /\ \E g \in Goroutines :
         /\ gs[g].fn = "UnmarshalStream"
         /\ gs[g].at = "loop"
         /\ gs[g].n > 0
         /\ PoolStep(g, [gs[g] EXCEPT !.at = "returned"], pool)

NextPool ==
    \/ poolCall
    \/ poolGetReader
    \/ poolGetWriter
    \/ poolStreamCall
    \/ poolPutReader
    \/ poolPutWriter
    \/ poolStreamEnd

SpecPool == InitPool /\ [][NextPool]_vars

-----------------------------------------------------------------------------
(* C33.  A pooled buffer has one user.                                      *)

\* goroutine g's parse, stream or encode is using buffer b
Using(g, b) == gs[g].b = b /\ gs[g].at \in {"using", "loop"}

\* buffer b can be obtained by a call
Available(b) == b \in pool.readers \cup pool.writers

\* C33: a buffered reader or writer is never available in a pool while a
\* parse, stream or encode is still using it; in particular the reader
\* consumed by a running UnmarshalStream, and a bufio.Reader or bufio.Writer
\* supplied by the caller, cannot be obtained and reset by another call.
C33_PooledNotInUse ==
    pc = "pool" =>
      /\ \A g \in Goroutines : \A b \in PoolBufs \cup {Own(g)} :
           Using(g, b) => ~Available(b)
      /\ \A g \in Goroutines : ~Available(Own(g))
      /\ \A g, h \in Goroutines, b \in PoolBufs : g # h /\ Using(g, b) => ~Using(h, b)

\* C33 for calls of UnmarshalJSON and MarshalJSON with a plain reader or
\* writer: the buffer taken from the pool is out of it until the call returns
C33_PlainCalls ==
    pc = "pool" =>
      \A g \in Goroutines, b \in PoolBufs :
        gs[g].fn # "UnmarshalStream" /\ gs[g].arg = "plain" /\ gs[g].at = "using"
          /\ gs[g].b = b
          /\ (\A h \in Goroutines : gs[h].fn = "UnmarshalStream" => gs[h].b # b)
          => ~Available(b)

\* a running stream and an UnmarshalJSON call read through one bufio.Reader
C33_StreamReaderTaken ==
    /\ pc = "pool"
    /\ \E g, h \in Goroutines, b \in PoolBufs :
         /\ gs[g].fn = "UnmarshalStream" /\ gs[g].at = "loop" /\ gs[g].b = b
         /\ gs[h].fn = "UnmarshalJSON" /\ gs[h].at = "using" /\ gs[h].b = b

\* the caller's own bufio.Writer is in writerPool after MarshalJSON returned
C33_OwnWriterPooled ==
    /\ pc = "pool"
    /\ \E g \in Goroutines :
         /\ gs[g].fn = "MarshalJSON" /\ gs[g].at = "returned"
         /\ Own(g) \in pool.writers


-----------------------------------------------------------------------------
(* MemFS.  The file system holds a pointer to a copy of the root struct,    *)
(* which shares the root's map, so its calls are calls on root.             *)

\* fs.ModeDir+0444 and another permission
ModeDir0444 == "ModeDir+0444"

Perms == {ModeDir0444, "0755"}

Panic == "panic: assignment to entry in nil map"

RECURSIVE OpenWalk(_, _, _)
\* the walk of MemFS.Open over the elements p from element i on:
\* [kind, file, dir, err], kind saying which of File and Directory is returned
OpenWalk(d, p, i) ==
    LET none(e) == [kind |-> "none", file |-> ZeroFile, dir |-> ZeroDir, err |-> e] IN
    IF i < Len(p)
    THEN IF p[i] \notin DOMAIN d.objs \/ d.objs[p[i]].Type # OTDir
         THEN none("could not find directory")
         ELSE OpenWalk(d.objs[p[i]].Dir, p, i + 1)
    ELSE IF p[i] \notin DOMAIN d.objs THEN none("could not find file")
    ELSE LET v == d.objs[p[i]] IN
         CASE v.Type = OTDir ->
                [kind |-> "Directory", file |-> ZeroFile, dir |-> v.Dir, err |-> NoErr]
           [] v.Type = OTFile ->
                [kind |-> "File", file |-> v.File, dir |-> ZeroDir, err |-> NoErr]
           [] OTHER -> none("panic: should never get here")

\* f.Open(name) on the file system whose root is d
Open(d, name) ==
    LET n == TrimSlash(PathClean(name)) IN
    IF ~ValidPath(n)
    THEN [kind |-> "File", file |-> ZeroFile, dir |-> ZeroDir,
          err |-> "invalid name for a path as reported by fs.ValidPath()"]
    ELSE IF n = <<dot>>
    THEN [kind |-> "Directory", file |-> ZeroFile, dir |-> d, err |-> NoErr]
    ELSE OpenWalk(d, Split(n), 1)

RECURSIVE MkdirAllWalk(_, _, _, _, _)
\* the loop of MkdirAll over the elements sp[i] .. sp[Len(sp) - 1] at time t:
\* the last element is not visited.  A Directory the loop has just made has
\* no map (objs is nil; it reads as empty here): made says d is such a one,
\* and the assignment d.objs[sp[i]] = ... then panics
MkdirAllWalk(d, sp, i, made, t) ==
    IF i > Len(sp) - 1 THEN DirErr(d, NoErr)
    ELSE IF sp[i] \in DOMAIN d.objs
    THEN LET o == d.objs[sp[i]] IN
         IF o.Type = OTFile THEN DirErr(d, "is a file")
         ELSE LET r == MkdirAllWalk(o.Dir, sp, i + 1, FALSE, t) IN
              DirErr([d EXCEPT !.objs[sp[i]].Dir = r.dir], r.err)
    ELSE IF made THEN DirErr(d, Panic)
    ELSE LET dir == Directory(sp[i], t, EmptyMap, FALSE)
             r == MkdirAllWalk(dir, sp, i + 1, TRUE, t)
         IN  DirErr([d EXCEPT !.objs = MapSet(@, sp[i], DirObject(dir))], r.err)

\* f.MkdirAll(p, perm) at time t on the file system whose root is d
MkdirAll(d, p, perm, t) ==
    LET n == TrimSlash(PathClean(p)) IN
    IF perm # ModeDir0444 THEN DirErr(d, "incorrect FileMode")
    ELSE IF ~ValidPath(n)
    THEN DirErr(d, "invalid name for a path as reported by fs.ValidPath()")
    ELSE MkdirAllWalk(d, Split(n), 1, FALSE, t)

\* the paths MkdirAll and Open are called with
MkdirPaths ==
    {<<dot>>, <<"b">>, <<"x">>, <<"b", "/", "x">>, <<"a", "/", "x">>,
     <<"x", "/", "y">>, <<"x", "/", "y", "/", "z">>, <<"b", "/", "x", "/", "y">>}

\* f.MkdirAll(p, perm)
memMkdirAll ==
    /\ MayCall
    /\ \E p \in MkdirPaths, perm \in Perms :
         TreeStep("MkdirAll", <<>>, p, perm, 0, MkdirAll(root, p, perm, now))
    /\ now' = now + 1

\* f.Open(name)
memOpen ==
    /\ MayRead
    /\ \E name \in MkdirPaths :
         LET r == Open(root, name) IN TreeRead("Open", <<>>, name, 0, r, r.err)
    /\ UNCHANGED now

NextMem ==
    \/ runSM
    \/ UnmarshalJSONReturn
    \/ treeHold
    \/ memMkdirAll
    \/ memOpen

SpecMem == InitTree /\ [][NextMem]_vars

-----------------------------------------------------------------------------
(* C34.  MkdirAll.                                                          *)

\* path p names a directory below d
IsDirectory(d, p) == LET r == Open(d, p) IN r.err = NoErr /\ r.kind = "Directory"

\* C34: after MkdirAll(p, fs.ModeDir+0444) returns nil, every component of
\* p including the last exists as a directory, so that Open(p) returns a
\* Directory; the call completes without panicking when several leading
\* components of p are missing, and does nothing when p is already a
\* directory.
C34_MkdirAllMakes ==
    Called("MkdirAll") /\ op.args = ModeDir0444 =>
      /\ op.err # Panic
      /\ op.err = NoErr => IsDirectory(root, op.name)
      /\ IsDirectory(op.before, op.name) => op.err = NoErr /\ root = op.before

\* C34 for a path that is already a directory
C34_ExistingKept ==
    Called("MkdirAll") /\ op.args = ModeDir0444 /\ IsDirectory(op.before, op.name) =>
      op.err = NoErr /\ root = op.before

\* MkdirAll("x") returned nil and Open("x") after it finds nothing
C34_LastNotMade ==
    /\ Called("Open")
    /\ op.name = <<"x">>
    /\ op.err # NoErr
    /\ op.before = root
    /\ <<"x">> \notin DOMAIN root.objs

\* MkdirAll("x/y/z") panicked after making x
C34_Panicked ==
    /\ Called("MkdirAll")
    /\ op.name = <<"x", "/", "y", "/", "z">>
    /\ op.err = Panic
    /\ <<"x">> \in DOMAIN root.objs

\* MkdirAll("x/y") returned nil with x made and y not
C34_ParentOnly ==
    /\ Called("MkdirAll")
    /\ op.name = <<"x", "/", "y">>
    /\ op.err = NoErr
    /\ IsDirectory(root, <<"x">>)
    /\ ~IsDirectory(root, op.name)


-----------------------------------------------------------------------------
(* Modification times across one top-level UnmarshalJSON call.  dictSM.start *)
(* reads the clock and stamps its own Directory; every nested object gets a *)
(* dictSM of its own whose start reads the clock again; a nested array is   *)
(* made by newDir with the parent's time, which newDir drops.               *)

RECURSIVE ModTimes(_)
\* the modification times carried by d and by everything below it
ModTimes(d) ==
    {d.modTime} \cup
    UNION {IF d.objs[k].Type = OTDir
           THEN ModTimes(d.objs[k].Dir)
           ELSE {d.objs[k].File.modTime} : k \in DOMAIN d.objs}

\* the i-th UnmarshalJSON call returned a Directory
Produced(i) == i \in 1..Len(results) /\ results[i].err = NoErr

\* C35: every File and every Directory produced within one top-level
\* UnmarshalJSON call, at any depth, carries the one modification time that
\* the top-level dictSM.start captured.
C35_OneModTime ==
    \A i \in 1..Len(results) :
        Produced(i) => ModTimes(results[i].dir) = {results[i].dir.modTime}

\* what the code does keep: the Files stored directly in the top-level
\* Directory carry the time its start captured
C35_TopFilesStamped ==
    \A i \in 1..Len(results) :
        Produced(i) =>
            \A k \in DOMAIN results[i].dir.objs :
                results[i].dir.objs[k].Type = OTFile =>
                    results[i].dir.objs[k].File.modTime = results[i].dir.modTime

\* a decoded array carries the zero time, not the start time
C35_ArrayZeroTime ==
    /\ Produced(1)
    /\ \E k \in DOMAIN results[1].dir.objs :
          /\ results[1].dir.objs[k].Type = OTDir
          /\ results[1].dir.objs[k].Dir.isArray
          /\ results[1].dir.objs[k].Dir.modTime = ZeroTime
          /\ results[1].dir.modTime # ZeroTime

\* a decoded nested object carries a later time than the top-level Directory
C35_NestedLater ==
    /\ Produced(1)
    /\ \E k \in DOMAIN results[1].dir.objs :
          /\ results[1].dir.objs[k].Type = OTDir
          /\ ~results[1].dir.objs[k].Dir.isArray
          /\ results[1].dir.objs[k].Dir.modTime > results[1].dir.modTime

\* a decoded document with a File directly in the top-level Directory
C35_TopFile ==
    /\ Produced(1)
    /\ \E k \in DOMAIN results[1].dir.objs : results[1].dir.objs[k].Type = OTFile


-----------------------------------------------------------------------------
(* The state machine pools across UnmarshalJSON calls.  sm counts the dictSM *)
(* and arraySM instances that Get has handed out and Close has not yet      *)
(* taken back.                                                              *)

NoneOut == [dict |-> 0, array |-> 0]

\* no UnmarshalJSON call is running
BetweenParses == pc # "unmarshal"

\* C36: every dictSM and arraySM taken from its pool during a parse is back
\* in the pool when the top-level UnmarshalJSON has returned, whether the
\* parse succeeded or a nested object or array failed: no instance is
\* outstanding between parses.
C36_NoneOutstanding == BetweenParses => sm = NoneOut

\* what the code does keep: when every parse so far has succeeded, every
\* instance is back in its pool between parses
C36_ReturnedOnSuccess ==
    (BetweenParses /\ \A i \in 1..Len(results) : Produced(i)) => sm = NoneOut

\* a parse has failed inside a nested object or array and has returned with
\* the nested machine still out of its pool
C36_Leaked ==
    /\ BetweenParses
    /\ Len(results) >= 1
    /\ ~Produced(Len(results))
    /\ sm.dict + sm.array > 0

\* a parse of a document with a nested object or array has succeeded
C36_NestedParsed ==
    /\ BetweenParses
    /\ Produced(1)
    /\ \E k \in DOMAIN results[1].dir.objs : results[1].dir.objs[k].Type = OTDir
    /\ sm = NoneOut


-----------------------------------------------------------------------------
(* WriteOut and writeOutPool.  The pool is a channel of capacity 10 that    *)
(* init fills with one-byte buffers; here `pool` is the number of buffers   *)
(* in the channel.  Goroutines call WriteOut on writers of their own; a     *)
(* writer is the caller's, so each Write either succeeds or returns an      *)
(* error.  A value is a rune, or a string or []byte, which take the same    *)
(* path.                                                                    *)

WriteOutCap == 10     \* cap(writeOutPool)

ValueKinds == {"rune", "string"}

\* the values of one WriteOut call
ValueLists == SeqsUpTo(ValueKinds, 2)

\* a WriteOut call: its values, the index the range loop is at, where the
\* call is, whether it holds a buffer of the pool, and what it returned
Out(values, i, at, holds, err) ==
    [values |-> values, i |-> i, at |-> at, holds |-> holds, err |-> err]

NotWriting == Out(<<>>, 0, "idle", FALSE, NoErr)

InitWriteOut ==
    /\ input = NoInput
    /\ src = <<>>
    /\ pos = 1
    /\ stack = <<>>
    /\ now = 1
    /\ pc = "write"
    /\ results = <<>>
    /\ file = NoFile
    /\ frag = <<>>
    /\ scalarOut = NoOut
    /\ NoStream
    /\ root = ZeroDir
    /\ op = NoOp
    /\ cp = NoCopy
    /\ mu = RWMutex(0, FALSE)
    /\ gs = [g \in Goroutines |-> NotWriting]
    /\ pool = WriteOutCap
    /\ sm = [dict |-> 0, array |-> 0]

\* goroutine g comes to o, the channel now holding n buffers
OutStep(g, o, n) ==
    /\ gs' = [gs EXCEPT ![g] = o]
    /\ pool' = n
    /\ UNCHANGED <<input, mu, sm, src, pos, stack, now, pc, results, file, frag,
                   scalarOut, streamVars, treeVars>>

\* WriteOut(w, values...) is called
writeOutCall ==
    /\ pc = "write"
    /\ \E g \in Goroutines, values \in ValueLists :
          /\ gs[g].at = "idle"
          /\ OutStep(g, Out(values, 1, "range", FALSE, NoErr), pool)

\* for _, v := range values, with the type switch; `return nil` after the last
writeOutRange ==
    /\ pc = "write"
    /\ \E g \in Goroutines :
          /\ gs[g].at = "range"
          /\ OutStep(g, IF gs[g].i > Len(gs[g].values) THEN NotWriting
                        ELSE IF gs[g].values[gs[g].i] = "rune"
                        THEN [gs[g] EXCEPT !.at = "receive"]
                        ELSE [gs[g] EXCEPT !.at = "writeBytes"], pool)

\* b := <-writeOutPool, which waits while the channel is empty
writeOutReceive ==
    /\ pc = "write"
    /\ \E g \in Goroutines :
          /\ gs[g].at = "receive"
          /\ pool > 0
          /\ OutStep(g, [gs[g] EXCEPT !.at = "writeRune", !.holds = TRUE], pool - 1)

\* b[0] = byte(x); if _, err := w.Write(b); err != nil { return err }
writeOutRune ==
    /\ pc = "write"
    /\ \E g \in Goroutines, ok \in BOOLEAN :
          /\ gs[g].at = "writeRune"
          /\ OutStep(g, IF ok THEN [gs[g] EXCEPT !.at = "send"]
                        ELSE [NotWriting EXCEPT !.err = "write error"], pool)

\* writeOutPool <- b; continue
writeOutSend ==
    /\ pc = "write"
    /\ \E g \in Goroutines :
          /\ gs[g].at = "send"
          /\ pool < WriteOutCap
          /\ OutStep(g, [gs[g] EXCEPT !.at = "range", !.holds = FALSE,
                                      !.i = @ + 1], pool + 1)

\* the Write of a string or []byte at the end of the loop body
writeOutBytes ==
    /\ pc = "write"
    /\ \E g \in Goroutines, ok \in BOOLEAN :
          /\ gs[g].at = "writeBytes"
          /\ OutStep(g, IF ok THEN [gs[g] EXCEPT !.at = "range", !.i = @ + 1]
                        ELSE [NotWriting EXCEPT !.err = "write error"], pool)

NextWriteOut ==
    \/ writeOutCall
    \/ writeOutRange
    \/ writeOutReceive
    \/ writeOutRune
    \/ writeOutSend
    \/ writeOutBytes

SpecWriteOut == InitWriteOut /\ [][NextWriteOut]_vars

\* the buffers WriteOut calls hold
BuffersHeld == Cardinality({g \in Goroutines : gs[g].holds})

\* no WriteOut call is running
NoneWriting == \A g \in Goroutines : gs[g].at = "idle"

\* C37: WriteOut puts back the buffer it took from writeOutPool on every
\* path, a failed Write included: whenever no WriteOut call is running the
\* pool holds its 10 buffers, so a WriteOut of a rune finds one.
C37_BuffersReturned == NoneWriting => pool = WriteOutCap

\* what the code does keep: the pool never holds more than its capacity
\* together with the buffers in use, so the send that puts a buffer back
\* never waits
C37_SendNeverWaits == pool + BuffersHeld <= WriteOutCap

\* a WriteOut of a rune has returned the writer's error and the pool is short
\* of a buffer
C37_BufferKept ==
    /\ NoneWriting
    /\ \E g \in Goroutines : gs[g].err # NoErr
    /\ pool < WriteOutCap

\* every buffer is gone: a WriteOut of a rune waits for one, no call holds
\* one, and so it waits forever
C37_WaitsForever ==
    /\ pool = 0
    /\ BuffersHeld = 0
    /\ \E g \in Goroutines : gs[g].at = "receive"

\* a buffer has been put back after a Write that succeeded
C37_PutBack ==
    /\ \E g \in Goroutines : gs[g].at = "range" /\ ~gs[g].holds
    /\ pool + BuffersHeld = WriteOutCap


-----------------------------------------------------------------------------
(* Names and keys.  A Directory stores each child under a key of its map,   *)
(* and the child, a File or a Directory, has a name field of its own, which *)
(* ReadDir and the object encoder report.                                   *)

\* in d and in every Directory below it, each child is stored under its own
\* name
AllNamed(d) == \A s \in Subtrees(d) : NamedAsStored(s)

\* C38: in every Directory of a tree made by decoding, by the constructors
\* and by any sequence of Set, WriteFile, Append and ArraySet, nil values
\* included, each child's own name equals the key its parent stores it under.
C38_NamedByKey == pc = "tree" => AllNamed(root)

\* what the code does keep: a decoded tree has every child under its own
\* name, and Set and WriteFile leave it so
C38_SetKeepsNames ==
    /\ Called("UnmarshalJSON") => AllNamed(root)
    /\ (Called("Set") \/ Called("WriteFile")) /\ AllNamed(op.before)
          => AllNamed(root)

\* Append(array, nil) has stored a File without a name under the next index
C38_NamelessNull ==
    /\ Called("Append")
    /\ op.err = NoErr
    /\ AllNamed(op.before)
    /\ \E k \in DOMAIN After.objs :
          /\ k \notin DOMAIN Before.objs
          /\ ObjectName(After.objs[k]) = <<>>

\* ArraySet has stored its argument under an index that is not its name
C38_NotRenamed ==
    /\ Called("ArraySet")
    /\ op.err = NoErr
    /\ AllNamed(op.before)
    /\ ~NamedAsStored(After)

\* Set has stored a child in a tree named throughout
C38_SetStored ==
    /\ Called("Set")
    /\ op.err = NoErr
    /\ AllNamed(op.before)
    /\ After # Before


-----------------------------------------------------------------------------
(* Termination.  runSM calls the current state until one returns nil; every *)
(* state that returns another state has read at least one byte of the       *)
(* source or has moved on in the fixed order of the states, so a finite     *)
(* source is used up.  Under SpecStream the goroutine runs whenever it can  *)
(* and a receiver that is receiving takes what the channel offers.          *)

\* an UnmarshalJSON call is running its state machine
Parsing == pc = "unmarshal"

\* the UnmarshalJSON call has returned a Directory or an error to its caller
ParseReturned == pc = "idle" /\ stack = <<>> /\ Len(results) >= 1

\* the receiver has stopped receiving before the channel was closed
GaveUp == consumer = "stopped"

\* C39: every run of runSM ends, so each UnmarshalJSON call returns, and
\* UnmarshalStream over a finite source closes its channel unless the
\* receiver stops receiving.
C39_Terminates ==
    /\ Parsing ~> ParseReturned
    /\ <>(closed \/ GaveUp)

\* the receiver took every item of a stream of several documents and then
\* found the channel closed
C39_StreamClosed ==
    /\ closed
    /\ consumer = "finished"
    /\ Len(results) >= 2
    /\ Len(received) >= 1

\* UnmarshalJSON alone on every input, its state machine running whenever it
\* can
SpecDecode == Spec /\ WF_vars(runSM \/ UnmarshalJSONReturn)

\* under SpecDecode: each UnmarshalJSON call returns
DecodeReturns == Parsing ~> ParseReturned

=============================================================================
